---- MODULE Spec2Model ----
(***************************************************************************)
(* Order-book reconstruction of ccxtr: the SortedMap of price levels, the  *)
(* per-market OrderBookAggregator (snapshot / get / append_and_get) and    *)
(* the OrderBookSynchronizer registry, modelled from src/src/util/mod.rs   *)
(* and src/src/util/collections.rs; and the distribution of stream items:  *)
(* the ingest loop of src/src/exchange/mod.rs, the stream parser of        *)
(* src/src/exchange/binance/margin.rs and the broadcast channel of         *)
(* src/src/util/channel.rs.                                                *)
(***************************************************************************)
EXTENDS Integers, Sequences, FiniteSets, TLC

VARIABLES market_order_books, ret, feed, snapshot_thread, channel, receivers, ingest,
          exchange_base, clients

vars == <<market_order_books, ret, feed, snapshot_thread, channel, receivers, ingest,
          exchange_base, clients>>

\* what the synchronizer's operations leave alone: the channel and its tasks
stream == <<channel, receivers, ingest>>
\* the exchange's symbol registry, market cache and connection flag, and the
\* connections of watch_order_book
exchange == <<exchange_base, clients>>

----------------------------------------------------------------------------
(* Bounds of the model. *)

\* largest update id an input carries
MaxId == 3
\* most diffs held in the pre-snapshot buffer
MaxBuffer == 1
\* most diffs the exchange stream delivers before the snapshot in SpecBootstrap
MaxFeed == 5

\* prices and quantities of the inputs (f64 values that are whole numbers)
Prices == {9, 10}
Quantities == {0, 1, 2}
Markets == {"BTC/USDT"}

----------------------------------------------------------------------------
(* Option and Result values. *)

None == [some |-> FALSE]
Some(v) == [some |-> TRUE, val |-> v]

Ok(v) == [ok |-> TRUE, val |-> v]
Err(e) == [ok |-> FALSE, err |-> e]

\* Error::InvalidOrderBook(String); args are the numbers formatted into it
InvalidOrderBook(msg, args) == [kind |-> "InvalidOrderBook", msg |-> msg, args |-> args]
InvalidMarket == [kind |-> "InvalidMarket", msg |-> "", args |-> <<>>]

\* the value of Ok(())
Unit == [unit |-> TRUE]

----------------------------------------------------------------------------
(* Strings: price.to_string() and the Ord of String. *)

\* f64::to_string of a non-negative whole number: its decimal digits
RECURSIVE to_string(_)
to_string(n) == IF n < 10 THEN <<n>> ELSE to_string(n \div 10) \o <<n % 10>>

\* String's Ord: lexicographic by byte, a proper prefix is smaller
RECURSIVE StrLess(_, _)
StrLess(a, b) ==
    IF b = <<>> THEN FALSE
    ELSE IF a = <<>> THEN TRUE
    ELSE IF Head(a) # Head(b) THEN Head(a) < Head(b)
    ELSE StrLess(Tail(a), Tail(b))

----------------------------------------------------------------------------
(* SortedMap<String, (f64, f64)>.  The two BinaryHeaps are modelled by the  *)
(* set of keys they hold: peek reads only the greatest element and retain  *)
(* removes every copy of a key, so the multiplicity of a key is never      *)
(* observed.                                                               *)

Ascending == "Ascending"
Descending == "Descending"

EmptyMap == [k \in {} |-> <<0, 0>>]

SortedMap_new(order) ==
    [map |-> EmptyMap, keys |-> {}, reverse_keys |-> {}, order |-> order]

\* BinaryHeap<K>::peek: the greatest key
HeapMax(S) == CHOOSE k \in S : \A j \in S : j = k \/ StrLess(j, k)
\* BinaryHeap<Reverse<K>>::peek: the smallest key
HeapMin(S) == CHOOSE k \in S : \A j \in S : j = k \/ StrLess(k, j)

SortedMap_peek(sm) ==
    IF sm.order = Descending
    THEN IF sm.keys = {} THEN None
         ELSE LET key == HeapMax(sm.keys)
              IN IF key \in DOMAIN sm.map THEN Some(<<key, sm.map[key]>>) ELSE None
    ELSE IF sm.reverse_keys = {} THEN None
         ELSE LET key == HeapMin(sm.reverse_keys)
              IN IF key \in DOMAIN sm.map THEN Some(<<key, sm.map[key]>>) ELSE None

SortedMap_insert(sm, key, value) ==
    [sm EXCEPT
       !.keys = IF sm.order = Descending THEN sm.keys \cup {key} ELSE sm.keys,
       !.reverse_keys = IF sm.order = Descending THEN sm.reverse_keys
                        ELSE sm.reverse_keys \cup {key},
       !.map = [k \in (DOMAIN sm.map) \cup {key} |->
                  IF k = key THEN value ELSE sm.map[k]]]

\* remove, had it taken the key out of the heaps and left it in the map
SortedMap_remove_heaps_only(sm, key) ==
    [sm EXCEPT
       !.keys = {x \in sm.keys : x # key},
       !.reverse_keys = {x \in sm.reverse_keys : x # key}]

SortedMap_remove(sm, key) ==
    [sm EXCEPT
       !.map = [k \in (DOMAIN sm.map) \ {key} |-> sm.map[k]],
       !.keys = {x \in sm.keys : x # key},
       !.reverse_keys = {x \in sm.reverse_keys : x # key}]

----------------------------------------------------------------------------
(* Price levels. *)

\* handle_order_book: one level of a snapshot or of a drained diff
handle_order_book(order_book_unit, order_book_hashmap) ==
    LET price == order_book_unit.price
        quantity == order_book_unit.quantity
    IN IF quantity = 0
       THEN SortedMap_remove(order_book_hashmap, to_string(price))
       ELSE SortedMap_insert(order_book_hashmap, to_string(price), <<price, quantity>>)

\* the for loops of snapshot: every unit of the list, first to last
RECURSIVE handle_all(_, _)
handle_all(units, sm) ==
    IF units = <<>> THEN sm
    ELSE handle_all(Tail(units), handle_order_book(Head(units), sm))

\* the closure of append_and_get's for_each: one level of an accepted diff
apply_unit(order_book_unit, sm) ==
    LET price == order_book_unit.price
        quantity == order_book_unit.quantity
    IN IF quantity = 0
       THEN SortedMap_remove(sm, to_string(price))
       ELSE SortedMap_insert(sm, to_string(price), <<price, quantity>>)

\* into_iter().for_each of append_and_get
RECURSIVE for_each(_, _)
for_each(units, sm) ==
    IF units = <<>> THEN sm
    ELSE for_each(Tail(units), apply_unit(Head(units), sm))

----------------------------------------------------------------------------
(* OrderBookAggregator. *)

OrderBookAggregator_new ==
    [bids |-> SortedMap_new(Descending),
     asks |-> SortedMap_new(Ascending),
     last_update_id |-> 0,
     buffer |-> Some(<<>>),
     is_synchronized |-> FALSE]

DefaultMarket == "default"

\* OrderBook { bids: vec![best_bid], asks: vec![best_ask], ..Default::default() }
BestBook(best_bid, best_ask) ==
    [bids |-> <<[price |-> best_bid[1], quantity |-> best_bid[2]]>>,
     asks |-> <<[price |-> best_ask[1], quantity |-> best_ask[2]]>>,
     market |-> DefaultMarket,
     last_update_id |-> None]

\* the drain, had it dropped the diffs that start at or before the snapshot
RECURSIVE drain_by_first(_, _, _)
drain_by_first(diffs, st, snapshot_id) ==
    IF diffs = <<>> THEN st
    ELSE LET diff == Head(diffs)
         IN IF diff.first_update_id <= snapshot_id
            THEN drain_by_first(Tail(diffs), st, snapshot_id)
            ELSE drain_by_first(Tail(diffs),
                       [bids |-> handle_all(diff.bids, st.bids),
                        asks |-> handle_all(diff.asks, st.asks),
                        last_update_id |-> diff.final_update_id],
                       snapshot_id)

\* the drain, had it left last_update_id at the snapshot's
RECURSIVE drain_keeps_id(_, _, _)
drain_keeps_id(diffs, st, snapshot_id) ==
    IF diffs = <<>> THEN st
    ELSE LET diff == Head(diffs)
         IN IF diff.final_update_id <= snapshot_id
            THEN drain_keeps_id(Tail(diffs), st, snapshot_id)
            ELSE drain_keeps_id(Tail(diffs),
                       [bids |-> handle_all(diff.bids, st.bids),
                        asks |-> handle_all(diff.asks, st.asks),
                        last_update_id |-> st.last_update_id],
                       snapshot_id)

\* the drain, had it kept the diff that ends at the snapshot's last_update_id
RECURSIVE drain_keeps_equal(_, _, _)
drain_keeps_equal(diffs, st, snapshot_id) ==
    IF diffs = <<>> THEN st
    ELSE LET diff == Head(diffs)
         IN IF diff.final_update_id < snapshot_id
            THEN drain_keeps_equal(Tail(diffs), st, snapshot_id)
            ELSE drain_keeps_equal(Tail(diffs),
                       [bids |-> handle_all(diff.bids, st.bids),
                        asks |-> handle_all(diff.asks, st.asks),
                        last_update_id |-> diff.final_update_id],
                       snapshot_id)

\* the buffer drain of snapshot; st holds bids, asks and last_update_id
RECURSIVE drain(_, _, _)
drain(diffs, st, snapshot_id) ==
    IF diffs = <<>> THEN st
    ELSE LET diff == Head(diffs)
         IN IF diff.final_update_id <= snapshot_id
            THEN drain(Tail(diffs), st, snapshot_id)
            ELSE drain(Tail(diffs),
                       [bids |-> handle_all(diff.bids, st.bids),
                        asks |-> handle_all(diff.asks, st.asks),
                        last_update_id |-> diff.final_update_id],
                       snapshot_id)

\* OrderBookAggregator::snapshot: the aggregator afterwards and the result
Agg_snapshot(self, order_book) ==
    IF self.is_synchronized
    THEN [agg |-> self, res |-> Err(InvalidOrderBook("already synchronized", <<>>))]
    ELSE IF ~self.buffer.some
    THEN [agg |-> self, res |-> Err(InvalidOrderBook("no buffer", <<>>))]
    ELSE IF ~order_book.last_update_id.some
    THEN [agg |-> self, res |-> Err(InvalidOrderBook("no last update id", <<>>))]
    ELSE LET snapshot_id == order_book.last_update_id.val
             st == drain(self.buffer.val,
                         [bids |-> handle_all(order_book.bids, self.bids),
                          asks |-> handle_all(order_book.asks, self.asks),
                          last_update_id |-> snapshot_id],
                         snapshot_id)
         IN [agg |-> [bids |-> st.bids,
                      asks |-> st.asks,
                      last_update_id |-> st.last_update_id,
                      buffer |-> None,
                      is_synchronized |-> TRUE],
             res |-> Ok(Unit)]

\* OrderBookAggregator::get
Agg_get(self) ==
    IF ~self.is_synchronized
    THEN Err(InvalidOrderBook("not synchronized", <<>>))
    ELSE LET best_bid == SortedMap_peek(self.bids)
             best_ask == SortedMap_peek(self.asks)
         IN IF ~best_bid.some THEN Err(InvalidOrderBook("no bid", <<>>))
            ELSE IF ~best_ask.some THEN Err(InvalidOrderBook("no ask", <<>>))
            ELSE Ok(BestBook(best_bid.val[2], best_ask.val[2]))

\* append_and_get past its checks: the levels of the diff, last_update_id, the book
accept(self, diff) ==
    LET after == [self EXCEPT !.bids = for_each(diff.bids, self.bids),
                              !.asks = for_each(diff.asks, self.asks),
                              !.last_update_id = diff.final_update_id]
        best_bid == SortedMap_peek(after.bids)
        best_ask == SortedMap_peek(after.asks)
    IN [agg |-> after,
        res |-> IF ~after.is_synchronized THEN Ok(None)
                ELSE IF ~best_bid.some THEN Err(InvalidOrderBook("no bid", <<>>))
                ELSE IF ~best_ask.some THEN Err(InvalidOrderBook("no ask", <<>>))
                ELSE Ok(Some(BestBook(best_bid.val[2], best_ask.val[2])))]

\* append_and_get, had it refused only the diffs that start beyond the successor
Agg_append_and_get_gaps_only(self, diff) ==
    IF ~self.is_synchronized
    THEN [agg |-> [self EXCEPT !.buffer = Some(Append(self.buffer.val, diff))],
          res |-> Ok(None)]
    ELSE IF self.is_synchronized /\ diff.first_update_id > self.last_update_id + 1
    THEN [agg |-> self,
          res |-> Err(InvalidOrderBook("invalid update id",
                        <<diff.first_update_id, self.last_update_id>>))]
    ELSE accept(self, diff)

\* append_and_get, had it pushed a buffered diff at the front of the buffer
Agg_append_and_get_push_front(self, diff) ==
    IF ~self.is_synchronized
    THEN [agg |-> [self EXCEPT !.buffer = Some(<<diff>> \o self.buffer.val)],
          res |-> Ok(None)]
    ELSE IF self.is_synchronized /\ diff.first_update_id # self.last_update_id + 1
    THEN [agg |-> self,
          res |-> Err(InvalidOrderBook("invalid update id",
                        <<diff.first_update_id, self.last_update_id>>))]
    ELSE accept(self, diff)

\* append_and_get, had it marked the aggregator unsynchronized on a refused diff
Agg_append_and_get_desync(self, diff) ==
    IF ~self.is_synchronized
    THEN [agg |-> [self EXCEPT !.buffer = Some(Append(self.buffer.val, diff))],
          res |-> Ok(None)]
    ELSE IF self.is_synchronized /\ diff.first_update_id # self.last_update_id + 1
    THEN [agg |-> [self EXCEPT !.is_synchronized = FALSE, !.buffer = Some(<<>>)],
          res |-> Err(InvalidOrderBook("invalid update id",
                        <<diff.first_update_id, self.last_update_id>>))]
    ELSE accept(self, diff)

\* OrderBookAggregator::append_and_get: the aggregator afterwards and the result
Agg_append_and_get(self, diff) ==
    IF ~self.is_synchronized
    THEN [agg |-> [self EXCEPT !.buffer = Some(Append(self.buffer.val, diff))],
          res |-> Ok(None)]
    ELSE IF self.is_synchronized /\ diff.first_update_id # self.last_update_id + 1
    THEN [agg |-> self,
          res |-> Err(InvalidOrderBook("invalid update id",
                        <<diff.first_update_id, self.last_update_id>>))]
    ELSE accept(self, diff)

----------------------------------------------------------------------------
(* OrderBookSynchronizer: market_order_books maps each registered market   *)
(* to its aggregator.                                                      *)

\* HashMap::insert of a fresh aggregator for every market of the list
RECURSIVE Sync_init(_, _)
Sync_init(books, markets) ==
    IF markets = <<>> THEN books
    ELSE Sync_init([m \in (DOMAIN books) \cup {Head(markets)} |->
                      IF m = Head(markets) THEN OrderBookAggregator_new ELSE books[m]],
                   Tail(markets))

\* snapshot, had it registered a market it does not know
Sync_snapshot_registers(books, market, order_book) ==
    LET known == Sync_init(books, IF market \in DOMAIN books THEN <<>> ELSE <<market>>)
        r == Agg_snapshot(known[market], order_book)
    IN [books |-> [known EXCEPT ![market] = r.agg], res |-> r.res]

Sync_snapshot(books, market, order_book) ==
    IF market \notin DOMAIN books
    THEN [books |-> books, res |-> Err(InvalidMarket)]
    ELSE LET r == Agg_snapshot(books[market], order_book)
         IN [books |-> [books EXCEPT ![market] = r.agg], res |-> r.res]

\* append_and_get, had the synchronizer kept one book for all its markets
Sync_append_and_get_global(books, market, diff) ==
    IF market \notin DOMAIN books
    THEN [books |-> books, res |-> Err(InvalidMarket)]
    ELSE LET r == Agg_append_and_get(books[market], diff)
         IN [books |-> [m \in DOMAIN books |-> Agg_append_and_get(books[m], diff).agg],
             res |-> IF r.res.ok /\ r.res.val.some
                     THEN Ok(Some([r.res.val.val EXCEPT !.market = market]))
                     ELSE r.res]

Sync_append_and_get(books, market, diff) ==
    IF market \notin DOMAIN books
    THEN [books |-> books, res |-> Err(InvalidMarket)]
    ELSE LET r == Agg_append_and_get(books[market], diff)
         IN [books |-> [books EXCEPT ![market] = r.agg],
             res |-> IF r.res.ok /\ r.res.val.some
                     THEN Ok(Some([r.res.val.val EXCEPT !.market = market]))
                     ELSE r.res]

Sync_get(books, market) ==
    IF market \notin DOMAIN books
    THEN Err(InvalidMarket)
    ELSE Agg_get(books[market])

----------------------------------------------------------------------------
(* The symbol registry (Unifier). *)

Unifier_new ==
    [unified_market_to_symbol_id |-> [m \in {} |-> ""],
     symbol_id_to_unified_market |-> [x \in {} |-> ""]]

\* insert_market_symbol_id, had it registered the market's direction only
Unifier_insert_market_only(self, market, symbol_id) ==
    [self EXCEPT !.unified_market_to_symbol_id = (market :> symbol_id) @@ @]

Unifier_insert_market_symbol_id(self, market, symbol_id) ==
    [unified_market_to_symbol_id |->
        (market :> symbol_id) @@ self.unified_market_to_symbol_id,
     symbol_id_to_unified_market |->
        (symbol_id :> market) @@ self.symbol_id_to_unified_market]

Unifier_get_symbol_id(self, market) ==
    IF market \in DOMAIN self.unified_market_to_symbol_id
    THEN Some(self.unified_market_to_symbol_id[market])
    ELSE None

\* reset, had it cleared the markets' direction only
Unifier_reset_markets_only(self) ==
    [self EXCEPT !.unified_market_to_symbol_id = [m \in {} |-> ""]]

Unifier_reset(self) ==
    [unified_market_to_symbol_id |-> [m \in {} |-> ""],
     symbol_id_to_unified_market |-> [x \in {} |-> ""]]

Unifier_get_market(self, symbol_id) ==
    IF symbol_id \in DOMAIN self.symbol_id_to_unified_market
    THEN Some(self.symbol_id_to_unified_market[symbol_id])
    ELSE None

----------------------------------------------------------------------------
(* Errors of the stream. *)

\* OrderBookError::InvalidOrderBook(String, Option<Market>)
OrderBookError_InvalidOrderBook(msg, market) ==
    [kind |-> "OrderBookError::InvalidOrderBook", msg |-> msg, market |-> market]
OrderBookError_NotImplemented == [kind |-> "OrderBookError::NotImplemented"]
\* OrderBookError::SynchronizationError(Market)
OrderBookError_SynchronizationError(market) ==
    [kind |-> "OrderBookError::SynchronizationError", market |-> market]
\* OrderBookError::UnknownError(String): the string is the Debug text of err
OrderBookError_UnknownError(err) == [kind |-> "OrderBookError::UnknownError", debug |-> err]

\* impl From<Error> for OrderBookError
OrderBookError_from(err) == OrderBookError_UnknownError(err)

\* async_broadcast::RecvError
Overflowed(n) == [kind |-> "Overflowed", n |-> n]
Closed == [kind |-> "Closed"]
\* TryRecvError::Empty: recv waits
Empty == [kind |-> "Empty"]
\* a failed assertion or unwrap: the task panics
Panic == [kind |-> "panic"]

\* WatchError::UnknownError(String); text holds the characters of the string
WatchError_UnknownError(text) == [kind |-> "WatchError::UnknownError", text |-> text]
WatchError_NotConnected == [kind |-> "WatchError::NotConnected"]
WatchError_WebsocketError == [kind |-> "WatchError::WebsocketError"]

\* impl From<async_broadcast::RecvError> for WatchError
WatchError_from_RecvError(e) ==
    IF e.kind = "Overflowed" THEN WatchError_UnknownError(to_string(e.n))
    ELSE WatchError_NotConnected

----------------------------------------------------------------------------
(* The broadcast channel: async_broadcast as src/src/util/channel.rs uses  *)
(* it.  inner is the state the sender and the receivers share: the queue   *)
(* of (message, receivers that have yet to read it) entries, the number of *)
(* messages that left the queue at its head, the number of receivers; a    *)
(* receiver is its read position.                                          *)

\* capacity of the channel (Properties::channel_capacity)
Capacity == 2

\* async_broadcast::broadcast(cap): the channel with its one receiver at 0
broadcast(cap) ==
    [queue |-> <<>>, capacity |-> cap, head_pos |-> 0, receiver_count |-> 1,
     is_closed |-> FALSE, overflow |-> FALSE]

\* Sender::new, had it left the overflow mode off
Sender_new_blocking(inner) == inner

\* Sender::new: inner.set_overflow(true)
Sender_new(inner) == [inner EXCEPT !.overflow = TRUE]

\* Sender::broadcast, had it put the message in front of the queue
Inner_broadcast_front(inner, msg) ==
    IF inner.is_closed
    THEN [inner |-> inner, pending |-> FALSE, res |-> Err(Closed)]
    ELSE IF Len(inner.queue) = inner.capacity /\ ~inner.overflow
    THEN [inner |-> inner, pending |-> TRUE, res |-> Err(Empty)]
    ELSE LET full == Len(inner.queue) = inner.capacity
             kept == IF full THEN Tail(inner.queue) ELSE inner.queue
         IN [inner |-> [inner EXCEPT
                           !.queue = <<[msg |-> msg, waiters |-> inner.receiver_count]>>
                                     \o kept,
                           !.head_pos = IF full THEN @ + 1 ELSE @],
             pending |-> FALSE,
             res |-> Ok(IF full THEN Some(Head(inner.queue).msg) ELSE None)]

\* Sender::broadcast: pending when the call waits for room; the result holds
\* the message that was dropped to make room
Inner_broadcast(inner, msg) ==
    IF inner.is_closed
    THEN [inner |-> inner, pending |-> FALSE, res |-> Err(Closed)]
    ELSE IF Len(inner.queue) = inner.capacity /\ ~inner.overflow
    THEN [inner |-> inner, pending |-> TRUE, res |-> Err(Empty)]
    ELSE LET full == Len(inner.queue) = inner.capacity
             kept == IF full THEN Tail(inner.queue) ELSE inner.queue
         IN [inner |-> [inner EXCEPT
                           !.queue = Append(kept, [msg |-> msg,
                                                   waiters |-> inner.receiver_count]),
                           !.head_pos = IF full THEN @ + 1 ELSE @],
             pending |-> FALSE,
             res |-> Ok(IF full THEN Some(Head(inner.queue).msg) ELSE None)]

\* Inner::try_recv_at: the channel and the read position afterwards, and the
\* message or the error
Inner_try_recv_at(inner, pos) ==
    IF pos < inner.head_pos
    THEN [inner |-> inner, pos |-> inner.head_pos,
          res |-> Err(Overflowed(inner.head_pos - pos))]
    ELSE LET i == pos - inner.head_pos + 1
         IN IF i > Len(inner.queue)
            THEN [inner |-> inner, pos |-> pos,
                  res |-> Err(IF inner.is_closed THEN Closed ELSE Empty)]
            ELSE IF inner.queue[i].waiters = 1
            THEN [inner |-> [inner EXCEPT !.queue = Tail(@), !.head_pos = @ + 1],
                  pos |-> pos + 1,
                  res |-> IF i = 1 THEN Ok(inner.queue[i].msg) ELSE Err(Panic)]
            ELSE [inner |-> [inner EXCEPT !.queue[i].waiters = @ - 1],
                  pos |-> pos + 1,
                  res |-> Ok(inner.queue[i].msg)]

\* Receiver::new_receiver, had it started the new receiver at the oldest message
Inner_new_receiver_at_head(inner) ==
    [inner |-> [inner EXCEPT !.receiver_count = @ + 1], pos |-> inner.head_pos]

\* Receiver::new_receiver: one more receiver, which starts after the last message
Inner_new_receiver(inner) ==
    [inner |-> [inner EXCEPT !.receiver_count = @ + 1],
     pos |-> inner.head_pos + Len(inner.queue)]

\* Drop for Receiver, had it closed the channel whenever a receiver goes
RECURSIVE Inner_drop_receiver_closes(_, _)
Inner_drop_receiver_closes(inner, pos) ==
    LET r == Inner_try_recv_at(inner, pos)
    IN IF r.res.ok \/ r.res.err.kind = "Overflowed"
       THEN Inner_drop_receiver_closes(r.inner, r.pos)
       ELSE [inner EXCEPT !.receiver_count = @ - 1, !.is_closed = TRUE]

\* Drop for Receiver: it reads what it has left to read, leaves the count, and
\* the channel closes with its last receiver
RECURSIVE Inner_drop_receiver(_, _)
Inner_drop_receiver(inner, pos) ==
    LET r == Inner_try_recv_at(inner, pos)
    IN IF r.res.ok \/ r.res.err.kind = "Overflowed"
       THEN Inner_drop_receiver(r.inner, r.pos)
       ELSE [inner EXCEPT !.receiver_count = @ - 1,
                          !.is_closed = @ \/ inner.receiver_count = 1]

\* channel::Sender::send: self.inner.broadcast(msg).await?; Ok(())
Sender_send(inner, msg) ==
    LET r == Inner_broadcast(inner, msg)
    IN [inner |-> r.inner, pending |-> r.pending,
        res |-> IF r.res.ok THEN Ok(Unit) ELSE Err(WatchError_WebsocketError)]

\* channel::Receiver::receive: Ok(self.inner.recv().await?); pending while the
\* receiver has read everything and the channel is open
Receiver_receive(inner, pos) ==
    LET r == Inner_try_recv_at(inner, pos)
    IN [inner |-> r.inner, pos |-> r.pos,
        pending |-> ~r.res.ok /\ r.res.err = Empty,
        res |-> IF r.res.ok THEN r.res
                ELSE IF r.res.err = Panic THEN r.res
                ELSE Err(WatchError_from_RecvError(r.res.err))]

----------------------------------------------------------------------------
(* Inputs. *)

OrderBookUnits == [price : Prices, quantity : Quantities]

\* the bids and asks of a message that carries at most one level
LightPairs ==
    {<<<<>>, <<>>>>} \cup {<<<<u>>, <<>>>> : u \in OrderBookUnits}
                     \cup {<<<<>>, <<u>>>> : u \in OrderBookUnits}

\* the bids and asks of a message that carries at most two levels
LevelPairs ==
    LightPairs \cup {<<<<u>>, <<v>>>> : u \in OrderBookUnits, v \in OrderBookUnits}
               \cup {<<<<u, v>>, <<>>>> : u \in OrderBookUnits, v \in OrderBookUnits}
               \cup {<<<<>>, <<u, v>>>> : u \in OrderBookUnits, v \in OrderBookUnits}

\* update-id ranges of one or two ids: first <= final <= first + 1
IdRanges == {r \in (1..MaxId) \X (1..MaxId) : r[1] <= r[2] /\ r[2] <= r[1] + 1}

\* OrderBookDiff::new
OrderBookDiff_new(first_update_id, final_update_id, bids, asks) ==
    [first_update_id |-> first_update_id, final_update_id |-> final_update_id,
     bids |-> bids, asks |-> asks, timestamp |-> None]

\* OrderBook::new
OrderBook_new(bids, asks, market, last_update_id) ==
    [bids |-> bids, asks |-> asks, market |-> market, timestamp |-> None,
     last_update_id |-> last_update_id]

\* the last_update_id of a depth snapshot
SnapshotIds == {None} \cup {Some(i) : i \in 0..MaxId}

\* Spec: diffs of any id range and depth snapshots, at most one level each
LightDiffs ==
    {OrderBookDiff_new(r[1], r[2], p[1], p[2]) : r \in IdRanges, p \in LightPairs}
LightBooks ==
    {OrderBook_new(p[1], p[2], DefaultMarket, id) : p \in LightPairs, id \in SnapshotIds}

\* SpecLevels: diffs of one update id with at most two levels; a depth snapshot
\* lists one resting bid and one resting ask
OrderBookDiffs ==
    {OrderBookDiff_new(i, i, p[1], p[2]) : i \in 1..MaxId, p \in LevelPairs}
RestingUnits == {u \in OrderBookUnits : u.quantity # 0}
OrderBooks ==
    {OrderBook_new(<<u>>, <<v>>, DefaultMarket, id) :
        u \in RestingUnits, v \in RestingUnits, id \in SnapshotIds}

\* SpecBootstrap: the diffs of the exchange stream carry the same level on both
\* sides and cover FeedSpan ids (as the diffs of test_order_book_synchronizer do)
FeedUnits ==
    {[price |-> 9, quantity |-> 1], [price |-> 10, quantity |-> 2],
     [price |-> 9, quantity |-> 0]}
FeedSpan == 3
FeedDiffs(first) ==
    {OrderBookDiff_new(first, first + FeedSpan - 1, <<u>>, <<u>>) : u \in FeedUnits}
SnapshotUnits == {[price |-> 9, quantity |-> 2], [price |-> 10, quantity |-> 1]}
BootstrapBooks ==
    {OrderBook_new(p[1], p[2], DefaultMarket, id) :
        p \in {<<<<>>, <<>>>>} \cup {<<<<u>>, <<u>>>> : u \in SnapshotUnits},
        id \in {None} \cup {Some(i) : i \in 0..(FeedSpan * MaxFeed)}}

Registered(market) == market \in DOMAIN market_order_books
Synchronized(market) ==
    Registered(market) /\ market_order_books[market].is_synchronized
Buffering(market) ==
    Registered(market) /\ ~market_order_books[market].is_synchronized

----------------------------------------------------------------------------
(* The synchronizer's operations.  ret is the last call: the operation,   *)
(* its market, the update ids of its argument and what it returned; feed   *)
(* is the first update id of the exchange stream's next diff.              *)

Call(op, market, ids, res) == [op |-> op, market |-> market, ids |-> ids, res |-> res]

\* ExchangeBase::new: the channel with the receiver the exchange keeps, no task yet
NoStream ==
    /\ channel = Sender_new(broadcast(Capacity))
    /\ receivers = [r \in {"base"} |-> [pos |-> 0, start |-> 0, log |-> <<>>]]
    /\ ingest = [pc |-> "idle", taken |-> 0, sent |-> 0]

\* ExchangeBase::new: markets: vec![], unifier: Unifier::new(), is_connected: false
NoExchange ==
    /\ exchange_base = [unifier |-> Unifier_new, markets |-> <<>>, is_connected |-> FALSE]
    /\ clients = <<>>

\* no second thread
NoThread == [pc |-> "done", order_book |-> OrderBook_new(<<>>, <<>>, DefaultMarket, None)]

Init ==
    /\ market_order_books = [m \in {} |-> OrderBookAggregator_new]
    /\ ret = Call("new", DefaultMarket, <<>>, Ok(Unit))
    /\ feed = 1
    /\ snapshot_thread = NoThread
    /\ NoStream
    /\ NoExchange

init(markets) ==
    /\ market_order_books' = Sync_init(market_order_books, markets)
    /\ ret' = Call("init", DefaultMarket, <<>>, Ok(Unit))
    /\ UNCHANGED <<feed, snapshot_thread, stream, exchange>>

snapshot(market, order_book) ==
    LET r == Sync_snapshot(market_order_books, market, order_book)
    IN /\ market_order_books' = r.books
       /\ ret' = Call("snapshot", market, <<order_book.last_update_id>>, r.res)
       /\ UNCHANGED <<feed, snapshot_thread, stream, exchange>>

append_and_get(market, diff) ==
    LET r == Sync_append_and_get(market_order_books, market, diff)
    IN /\ market_order_books' = r.books
       /\ ret' = Call("append_and_get", market,
                       <<diff.first_update_id, diff.final_update_id>>, r.res)
       /\ UNCHANGED <<feed, snapshot_thread, stream, exchange>>

\* the ingest path hands the next diff of the exchange stream to append_and_get
deliver(market, diff) ==
    LET r == Sync_append_and_get(market_order_books, market, diff)
    IN /\ diff.first_update_id = feed
       /\ market_order_books' = r.books
       /\ ret' = Call("append_and_get", market,
                       <<diff.first_update_id, diff.final_update_id>>, r.res)
       /\ feed' = diff.final_update_id + 1
       /\ UNCHANGED <<snapshot_thread, stream, exchange>>

get(market) ==
    /\ ret' = Call("get", market, <<>>, Sync_get(market_order_books, market))
    /\ UNCHANGED <<market_order_books, feed, snapshot_thread, exchange, stream, exchange>>

\* any calls in any order; the buffer is capped at MaxBuffer diffs
Next ==
    \/ \E m \in Markets : init(<<m>>)
    \/ \E m \in Markets : \E ob \in LightBooks : snapshot(m, ob)
    \/ \E m \in Markets : \E d \in LightDiffs :
          /\ Buffering(m) => Len(market_order_books[m].buffer.val) < MaxBuffer
          /\ append_and_get(m, d)
    \/ \E m \in Markets : get(m)

Spec == Init /\ [][Next]_vars

\* the diffs arrive after the snapshot; messages carry up to two levels
NextLevels ==
    \/ \E m \in Markets : init(<<m>>)
    \/ \E m \in Markets : \E ob \in OrderBooks : snapshot(m, ob)
    \/ \E m \in Markets : \E d \in OrderBookDiffs : Synchronized(m) /\ append_and_get(m, d)
    \/ \E m \in Markets : get(m)

SpecLevels == Init /\ [][NextLevels]_vars

\* one session: the stream's diffs, each following the one before, are buffered
\* until the snapshot arrives
NextBootstrap ==
    \/ \E m \in Markets : market_order_books = [k \in {} |-> OrderBookAggregator_new] /\ init(<<m>>)
    \/ \E m \in Markets : \E d \in FeedDiffs(feed) :
          /\ Buffering(m)
          /\ Len(market_order_books[m].buffer.val) < MaxFeed
          /\ deliver(m, d)
    \/ \E m \in Markets : \E ob \in BootstrapBooks : snapshot(m, ob)
    \/ \E m \in Markets : get(m)

SpecBootstrap == Init /\ [][NextBootstrap]_vars

\* two markets, each registered or not: calls on either in any order
MarketPairs == {"BTC/USDT", "ETH/USDT"}
MarketBooks ==
    {OrderBook_new(<<[price |-> 9, quantity |-> 1]>>, <<[price |-> 10, quantity |-> 1]>>,
                   DefaultMarket, id) : id \in {None, Some(0)}}
MarketDiffs ==
    {OrderBookDiff_new(i, i, <<[price |-> 9, quantity |-> q]>>, <<>>) :
        i \in 1..2, q \in {0, 2}}

NextMarkets ==
    \/ \E m \in MarketPairs : init(<<m>>)
    \/ \E m \in MarketPairs : \E ob \in MarketBooks : snapshot(m, ob)
    \/ \E m \in MarketPairs : \E d \in MarketDiffs :
          /\ Buffering(m) => Len(market_order_books[m].buffer.val) < MaxBuffer
          /\ append_and_get(m, d)
    \/ \E m \in MarketPairs : get(m)

SpecMarkets == Init /\ [][NextMarkets]_vars

----------------------------------------------------------------------------
(* The ingest path of the margin exchange: the transport's messages go     *)
(* through stream_parser, and the items it yields are sent on the channel  *)
(* that the consumers' receivers read.                                     *)

\* most messages the transport delivers
MaxMessages == 4

\* the receivers handed out by watch_order_book and by clone
Consumers == {"c1", "c2"}

\* the characters of a decimal field: the digits 0..9, and Letter for any other
Letter == 10

RECURSIVE from_digits(_)
from_digits(s) ==
    IF s = <<>> THEN 0 ELSE from_digits(SubSeq(s, 1, Len(s) - 1)) * 10 + s[Len(s)]

\* str::parse::<f64> of a field
parse_f64(s) ==
    IF s = <<>> \/ \E i \in 1..Len(s) : s[i] \notin 0..9
    THEN Err([kind |-> "ParseFloatError"])
    ELSE Ok(from_digits(s))

\* WatchCommonResponse::try_from(message): decodable is whether serde_json
\* reads the body; the fields are those of the JSON object
WatchCommonResponse(decodable, result, event_type, symbol, bid_price) ==
    [decodable |-> decodable, result |-> result, event_type |-> event_type,
     order_book_update_id |-> Some(7), symbol |-> symbol,
     bid_price |-> bid_price, bid_quantity |-> Some(<<1>>),
     ask_price |-> Some(<<1, 0>>), ask_quantity |-> Some(<<2>>)]

\* what the transport delivers: a body that is no JSON, the answer to a
\* subscription, book tickers of a known symbol, of an unknown symbol and with
\* a bid price that is no number, and a depth update
Messages ==
    {WatchCommonResponse(FALSE, None, None, None, None),
     WatchCommonResponse(TRUE, Some("null"), None, None, None),
     WatchCommonResponse(TRUE, None, Some("bookTicker"), Some("BTCUSDT"), Some(<<9>>)),
     WatchCommonResponse(TRUE, None, Some("bookTicker"), Some("XRPUSDT"), Some(<<9>>)),
     WatchCommonResponse(TRUE, None, Some("bookTicker"), Some("BTCUSDT"), Some(<<Letter>>)),
     WatchCommonResponse(TRUE, None, Some("depthUpdate"), Some("BTCUSDT"), None)}

\* exchange_base.markets and the unifier after load_markets
StreamMarkets == <<"BTC/USDT">>
StreamUnifier == Unifier_insert_market_symbol_id(Unifier_new, "BTC/USDT", "BTCUSDT")

\* the stream_parser of BinanceMargin: panic when an unwrap fails, else the
\* Option<StreamItem> it returns (the item is the payload of StreamItem::OrderBook)
stream_parser(message, unifier) ==
    IF ~message.decodable THEN [panic |-> FALSE, item |-> None]
    ELSE IF message.result.some THEN [panic |-> FALSE, item |-> None]
    ELSE IF /\ message.event_type = Some("bookTicker")
            /\ message.order_book_update_id.some /\ message.symbol.some
            /\ message.bid_price.some /\ message.bid_quantity.some
            /\ message.ask_price.some /\ message.ask_quantity.some
    THEN LET market == Unifier_get_market(unifier, message.symbol.val)
             bid_price == parse_f64(message.bid_price.val)
             bid_quantity == parse_f64(message.bid_quantity.val)
             ask_price == parse_f64(message.ask_price.val)
             ask_quantity == parse_f64(message.ask_quantity.val)
         IN IF ~market.some
            THEN [panic |-> FALSE,
                  item |-> Some(Err(OrderBookError_InvalidOrderBook("Unknown market", None)))]
            ELSE IF ~bid_price.ok \/ ~bid_quantity.ok \/ ~ask_price.ok \/ ~ask_quantity.ok
            THEN [panic |-> TRUE, item |-> None]
            ELSE [panic |-> FALSE,
                  item |-> Some(Ok(OrderBook_new(
                      <<[price |-> bid_price.val, quantity |-> bid_quantity.val]>>,
                      <<[price |-> ask_price.val, quantity |-> ask_quantity.val]>>,
                      market.val, message.order_book_update_id)))]
    ELSE IF message.event_type = Some("depthUpdate")
    THEN [panic |-> FALSE, item |-> Some(Err(OrderBookError_NotImplemented))]
    ELSE [panic |-> FALSE, item |-> None]

\* a step of the stream: the operation, the receiver or the message it is about,
\* and its result
StreamCall(op, who, res) ==
    [op |-> op, market |-> DefaultMarket, ids |-> <<>>, who |-> who, res |-> res]

\* ExchangeBase::connect: init of the markets, then the ingest task is spawned
connect ==
    /\ ingest.pc = "idle"
    /\ StreamMarkets # <<>>
    /\ market_order_books' = Sync_init(market_order_books, StreamMarkets)
    /\ ingest' = [ingest EXCEPT !.pc = "running"]
    /\ ret' = StreamCall("connect", "base", Ok(Unit))
    /\ exchange_base' = [exchange_base EXCEPT !.is_connected = TRUE]
    /\ UNCHANGED <<feed, snapshot_thread, channel, receivers, clients>>

\* one turn of the ingest loop on Some(message): the parser, then the send of
\* the item it yields, whose result the loop ignores.  A panic ends the task;
\* a send that waits for room keeps the task in the send.
ingest_message(message) ==
    LET p == stream_parser(message, StreamUnifier)
        s == Sender_send(channel, [seq |-> ingest.sent + 1, item |-> p.item.val])
    IN /\ ingest.pc = "running"
       /\ ingest.taken < MaxMessages
       /\ IF p.panic
          THEN /\ ingest' = [ingest EXCEPT !.pc = "panicked", !.taken = @ + 1]
               /\ ret' = StreamCall("ingest", message, Err(Panic))
               /\ UNCHANGED channel
          ELSE IF ~p.item.some
          THEN /\ ingest' = [ingest EXCEPT !.taken = @ + 1]
               /\ ret' = StreamCall("ingest", message, Ok(None))
               /\ UNCHANGED channel
          ELSE IF s.pending
          THEN /\ ingest' = [ingest EXCEPT !.pc = "sending", !.taken = @ + 1]
               /\ ret' = StreamCall("ingest", message, Err(Empty))
               /\ UNCHANGED channel
          ELSE /\ ingest' = [ingest EXCEPT !.taken = @ + 1, !.sent = @ + 1]
               /\ ret' = StreamCall("ingest", message,
                                    IF s.res.ok THEN Ok(Some(s.res.val)) ELSE s.res)
               /\ channel' = s.inner
       /\ UNCHANGED <<market_order_books, feed, snapshot_thread, exchange, receivers>>

\* the turn of the ingest loop on None: the transport has ended, break
ingest_end ==
    /\ ingest.pc = "running"
    /\ ingest' = [ingest EXCEPT !.pc = "stopped"]
    /\ ret' = StreamCall("ingest", "None", Ok(None))
    /\ UNCHANGED <<market_order_books, feed, snapshot_thread, exchange, channel, receivers>>

\* watch_order_book, Receiver::clone: a new receiver of the channel; start and
\* log are the history of the receiver (the events sent before it, what it got)
clone(r) ==
    LET n == Inner_new_receiver(channel)
    IN /\ ingest.pc # "idle"
       /\ r \notin DOMAIN receivers
       /\ channel' = n.inner
       /\ receivers' = [x \in (DOMAIN receivers) \cup {r} |->
                           IF x = r THEN [pos |-> n.pos, start |-> ingest.sent, log |-> <<>>]
                           ELSE receivers[x]]
       /\ ret' = StreamCall("clone", r, Ok(Unit))
       /\ UNCHANGED <<market_order_books, feed, snapshot_thread, exchange, ingest>>

\* Receiver::receive, once it has a message or an error to return; the log
\* gets the number of the event, or minus the number of events missed
receive(r) ==
    LET v == Receiver_receive(channel, receivers[r].pos)
    IN /\ r \in DOMAIN receivers
       /\ r \in Consumers
       /\ ~v.pending
       /\ channel' = v.inner
       /\ receivers' = [receivers EXCEPT
                           ![r].pos = v.pos,
                           ![r].log = Append(@, IF v.res.ok THEN v.res.val.seq
                                                ELSE receivers[r].pos - v.pos)]
       /\ ret' = StreamCall("receive", r, v.res)
       /\ UNCHANGED <<market_order_books, feed, snapshot_thread, exchange, ingest>>

\* a consumer drops its receiver
drop(r) ==
    /\ r \in DOMAIN receivers
    /\ r \in Consumers
    /\ channel' = Inner_drop_receiver(channel, receivers[r].pos)
    /\ receivers' = [x \in (DOMAIN receivers) \ {r} |-> receivers[x]]
    /\ ret' = StreamCall("drop", r, Ok(Unit))
    /\ UNCHANGED <<market_order_books, feed, snapshot_thread, exchange, ingest>>

NextStream ==
    \/ connect
    \/ \E message \in Messages : ingest_message(message)
    \/ ingest_end
    \/ \E r \in Consumers : clone(r)
    \/ \E r \in Consumers : receive(r)
    \/ \E r \in Consumers : drop(r)

SpecStream == Init /\ [][NextStream]_vars

----------------------------------------------------------------------------
(* The exchanges: load_markets fills the market cache and the symbol       *)
(* registry from the exchange's answer to exchangeInfo.                    *)

\* a symbol of FetchMarketsResponse
Symbol(symbol, base_asset, quote_asset) ==
    [symbol |-> symbol, base_asset |-> base_asset, quote_asset |-> quote_asset]

\* Into<Result<Market>> for &FetchMarketsSymbolResponse; a market is its base
\* and its quote
Market_from(s) ==
    IF ~s.base_asset.some THEN Err([kind |-> "MissingField", field |-> "base_asset"])
    ELSE IF ~s.quote_asset.some THEN Err([kind |-> "MissingField", field |-> "quote_asset"])
    ELSE Ok(<<s.base_asset.val, s.quote_asset.val>>)

\* the symbols an answer can list: two good ones, two names of one market, one
\* without a quote asset, and (usdm) one without a symbol
Symbols ==
    {Symbol(Some("BTCUSDT"), Some("BTC"), Some("USDT")),
     Symbol(Some("ETHUSDT"), Some("ETH"), Some("USDT")),
     Symbol(Some("XBTUSDT"), Some("BTC"), Some("USDT")),
     Symbol(Some("LTCUSDT"), Some("LTC"), None),
     Symbol(None, Some("ETH"), Some("USDT"))}

\* most symbols of one answer
MaxSymbols == 2

\* what http_client.get returns: an error, or the symbols of the answer
RECURSIVE SymbolLists(_)
SymbolLists(n) ==
    IF n = 0 THEN {<<>>}
    ELSE SymbolLists(n - 1)
         \cup {Append(l, x) : l \in {k \in SymbolLists(n - 1) : Len(k) = n - 1}, x \in Symbols}
FetchMarketsResponses ==
    {Err([kind |-> "HttpError"])} \cup {Ok(l) : l \in SymbolLists(MaxSymbols)}

\* the loop of BinanceUsdm::load_markets over result.symbols: the registry and
\* the markets so far, and the error that ended the loop
RECURSIVE usdm_symbols(_, _, _)
usdm_symbols(symbols, registry, list) ==
    IF symbols = <<>> THEN [unifier |-> registry, markets |-> list, res |-> Ok(Unit)]
    ELSE LET x == Head(symbols)
             market == Market_from(x)
         IN IF ~x.symbol.some THEN usdm_symbols(Tail(symbols), registry, list)
            ELSE IF ~market.ok
            THEN [unifier |-> registry, markets |-> list, res |-> market]
            ELSE usdm_symbols(Tail(symbols),
                              Unifier_insert_market_symbol_id(registry, market.val, x.symbol.val),
                              Append(list, market.val))

\* BinanceUsdm::load_markets; brackets is what load_leverage_brackets does:
\* "skip" without keys or once it has run, else "ok" or "fail"
usdm_load_markets(result, brackets) ==
    LET loop == usdm_symbols(result.val, Unifier_reset(exchange_base.unifier), <<>>)
        base == IF exchange_base.markets # <<>> THEN exchange_base
                ELSE IF ~result.ok THEN exchange_base
                ELSE IF ~loop.res.ok THEN [exchange_base EXCEPT !.unifier = loop.unifier]
                ELSE [exchange_base EXCEPT !.unifier = loop.unifier, !.markets = loop.markets]
        res == IF exchange_base.markets = <<>> /\ ~result.ok THEN result
               ELSE IF exchange_base.markets = <<>> /\ ~loop.res.ok THEN loop.res
               ELSE IF brackets = "fail" THEN Err([kind |-> "HttpError"])
               ELSE Ok(base.markets)
    IN /\ exchange_base' = base
       /\ ret' = StreamCall("load_markets", result, res)
       /\ UNCHANGED <<market_order_books, feed, snapshot_thread, stream, clients>>

\* the loop of Binance::load_markets and BinanceMargin::load_markets over
\* result.symbols: a symbol that is no market is passed over
RECURSIVE spot_symbols(_, _, _)
spot_symbols(symbols, registry, list) ==
    IF symbols = <<>> THEN [unifier |-> registry, markets |-> list, res |-> Ok(Unit)]
    ELSE LET x == Head(symbols)
             market == Market_from(x)
         IN IF market.ok
            THEN spot_symbols(Tail(symbols),
                              Unifier_insert_market_symbol_id(registry, market.val, x.symbol.val),
                              Append(list, market.val))
            ELSE spot_symbols(Tail(symbols), registry, list)

\* Binance::load_markets
binance_load_markets(result) ==
    LET loop == spot_symbols(result.val, Unifier_reset(exchange_base.unifier), <<>>)
        base == IF exchange_base.markets # <<>> THEN exchange_base
                ELSE IF ~result.ok
                THEN [exchange_base EXCEPT !.unifier = Unifier_reset(@)]
                ELSE [exchange_base EXCEPT !.unifier = loop.unifier, !.markets = loop.markets]
    IN /\ exchange_base' = base
       /\ ret' = StreamCall("load_markets", result,
                            IF exchange_base.markets = <<>> /\ ~result.ok THEN result
                            ELSE Ok(base.markets))
       /\ UNCHANGED <<market_order_books, feed, snapshot_thread, stream, clients>>

\* ExchangeBase::connect as load_markets calls it: the registry of the
\* synchronizer, the ingest task and the flag afterwards, and the result;
\* connected is whether ws_client.connect() succeeds
ExchangeBase_connect(base, books, task, connected) ==
    IF base.markets = <<>>
    THEN [base |-> base, books |-> books, ingest |-> task,
          res |-> Err([kind |-> "MissingMarkets"])]
    ELSE IF ~connected
    THEN [base |-> base, books |-> Sync_init(books, base.markets), ingest |-> task,
          res |-> Err([kind |-> "WebsocketError"])]
    ELSE [base |-> [base EXCEPT !.is_connected = TRUE],
          books |-> Sync_init(books, base.markets),
          ingest |-> [task EXCEPT !.pc = "running"],
          res |-> Ok(Unit)]

\* BinanceMargin::load_markets
margin_load_markets(result, connected) ==
    LET loop == spot_symbols(result.val, Unifier_reset(exchange_base.unifier), <<>>)
        loaded == [exchange_base EXCEPT !.unifier = loop.unifier, !.markets = loop.markets]
        c == ExchangeBase_connect(loaded, market_order_books, ingest, connected)
    IN IF exchange_base.markets # <<>>
       THEN /\ ret' = StreamCall("load_markets", result, Ok(exchange_base.markets))
            /\ UNCHANGED <<market_order_books, feed, snapshot_thread, stream, exchange>>
       ELSE IF ~result.ok
       THEN /\ exchange_base' = [exchange_base EXCEPT !.unifier = Unifier_reset(@)]
            /\ ret' = StreamCall("load_markets", result, result)
            /\ UNCHANGED <<market_order_books, feed, snapshot_thread, stream, clients>>
       ELSE /\ exchange_base' = c.base
            /\ market_order_books' = c.books
            /\ ingest' = c.ingest
            /\ ret' = StreamCall("load_markets", result,
                                 IF c.res.ok THEN Ok(c.base.markets) ELSE c.res)
            /\ UNCHANGED <<feed, snapshot_thread, channel, receivers, clients>>

\* BinanceMargin::watch_order_book: the receiver r for the caller, after the
\* SUBSCRIBE request for the symbol ids of the markets; sent is "no sender"
\* when the connection has no sender, "fail" when send_async fails
margin_watch_order_book(request, r, sent) ==
    LET n == Inner_new_receiver(channel)
        unknown == {i \in 1..Len(request) :
                      ~Unifier_get_symbol_id(exchange_base.unifier, request[i]).some}
        res == IF ~exchange_base.is_connected THEN Err(WatchError_NotConnected)
               ELSE IF request = <<>> THEN Ok(r)
               ELSE IF sent = "no sender" THEN Err(WatchError_WebsocketError)
               ELSE IF unknown # {} THEN Err([kind |-> "WatchError::SymbolNotFound"])
               ELSE IF sent = "fail" THEN Err(WatchError_WebsocketError)
               ELSE Ok(r)
    IN /\ r \notin DOMAIN receivers
       /\ ret' = StreamCall("watch_order_book", request, res)
       /\ IF res.ok
          THEN /\ channel' = n.inner
               /\ receivers' = [x \in (DOMAIN receivers) \cup {r} |->
                                   IF x = r THEN [pos |-> n.pos, start |-> ingest.sent,
                                                  log |-> <<>>]
                                   ELSE receivers[x]]
          ELSE UNCHANGED <<channel, receivers>>
       /\ UNCHANGED <<market_order_books, feed, snapshot_thread, ingest, exchange>>

\* slice::chunks_exact: the chunks of size elements, without the remainder
chunks_exact(s, size) ==
    [j \in 1..(Len(s) \div size) |-> SubSeq(s, (j - 1) * size + 1, j * size)]

\* slice::chunks: consecutive chunks of size elements, the last one shorter
chunks(s, size) ==
    [j \in 1..((Len(s) + size - 1) \div size) |->
        SubSeq(s, (j - 1) * size + 1, IF j * size < Len(s) THEN j * size ELSE Len(s))]

\* the chunk length of watch_order_book
ChunkSize == 100

\* str::to_lowercase on a symbol id, a text in upper case and a number
to_lowercase(symbol_id) ==
    <<IF symbol_id[1] = "SYM" THEN "sym" ELSE symbol_id[1], symbol_id[2]>>

\* the SUBSCRIBE request of one chunk of symbol ids
Subscribe(symbol_ids, suffix) ==
    [method |-> "SUBSCRIBE",
     params |-> [i \in 1..Len(symbol_ids) |-> <<to_lowercase(symbol_ids[i]), suffix>>],
     id |-> 1]

\* watch_order_book of BinanceUsdm and Binance: one connection for each chunk
\* of symbol ids, all of them owned by the Receiver it returns; fail is the
\* chunk whose send fails, 0 for none
chunked_watch_order_book(request, fail, suffix, empty) ==
    LET unknown == {i \in 1..Len(request) :
                      ~Unifier_get_symbol_id(exchange_base.unifier, request[i]).some}
        symbol_ids == [i \in 1..Len(request) |->
                         Unifier_get_symbol_id(exchange_base.unifier, request[i]).val]
        cs == chunks(symbol_ids, ChunkSize)
        made == [j \in 1..Len(cs) |-> Subscribe(cs[j], suffix)]
        res == IF exchange_base.markets = <<>> THEN Err([kind |-> "MarketNotInitialized"])
               ELSE IF request = <<>> THEN Err([kind |-> empty])
               ELSE IF unknown # {} THEN Err([kind |-> "WatchError::SymbolNotFound"])
               ELSE IF fail \in 1..Len(cs) THEN Err(WatchError_WebsocketError)
               ELSE Ok(Unit)
    IN /\ ret' = StreamCall("watch_order_book", request, res)
       /\ clients' = IF res.ok THEN made ELSE <<>>
       /\ UNCHANGED <<market_order_books, feed, snapshot_thread, stream, exchange_base>>

\* BinanceUsdm::watch_order_book
usdm_watch_order_book(request, fail) ==
    chunked_watch_order_book(request, fail, "@depth5@100ms", "InvalidParameters")

\* Binance::watch_order_book
binance_watch_order_book(request, fail) ==
    chunked_watch_order_book(request, fail, "@bookTicker", "MissingMarkets")

\* the k-th symbol of a long exchangeInfo answer
Listing(k) == Symbol(Some(<<"SYM", k>>), Some(<<"A", k>>), Some("USDT"))

\* the requests reach MaxChunks full chunks and a little more
MaxChunks == 2

\* the lengths of the requests: each multiple of ChunkSize, one less and
\* one more
RequestLengths ==
    {n \in 0..(MaxChunks * ChunkSize + 1) :
        \E k \in 0..MaxChunks : n - k * ChunkSize \in {0 - 1, 0, 1}}

\* exchangeInfo answers: an error, one symbol, two symbols
ShortResponses ==
    {Err([kind |-> "HttpError"]), Ok(<<Listing(1)>>), Ok(<<Listing(1), Listing(2)>>)}

\* the exchange after load_markets has returned Ok for an answer that lists
\* Listing(1), ..., Listing(n)
Loaded(e, n) ==
    [unifier |->
        [unified_market_to_symbol_id |->
            [m \in {Market_from(Listing(k)).val : k \in 1..n} |-> <<"SYM", m[1][2]>>],
         symbol_id_to_unified_market |->
            [x \in {Listing(k).symbol.val : k \in 1..n} |-> <<<<"A", x[2]>>, "USDT">>]],
     markets |-> [k \in 1..n |-> Market_from(Listing(k)).val],
     is_connected |-> FALSE,
     exchange |-> e]

\* the requests: n markets in a row, from the first or the second listed
WatchRequests ==
    {[i \in 1..n |-> <<<<"A", from + i - 1>>, "USDT">>] :
        n \in RequestLengths, from \in 1..2}

\* an exchange with chunked subscriptions: just constructed, or with the
\* markets of a long exchangeInfo answer loaded
InitWatch ==
    /\ market_order_books = [m \in {} |-> OrderBookAggregator_new]
    /\ ret = Call("new", DefaultMarket, <<>>, Ok(Unit))
    /\ feed = 1
    /\ snapshot_thread = NoThread
    /\ NoStream
    /\ \E e \in {"BinanceUsdm", "Binance"} :
          exchange_base \in {[unifier |-> Unifier_new, markets |-> <<>>,
                              is_connected |-> FALSE, exchange |-> e],
                             Loaded(e, MaxChunks * ChunkSize + 2)}
    /\ clients = <<>>

NextWatch ==
    \/ \E result \in ShortResponses : \E brackets \in {"skip", "ok", "fail"} :
          exchange_base.exchange = "BinanceUsdm" /\ usdm_load_markets(result, brackets)
    \/ \E result \in ShortResponses :
          exchange_base.exchange = "Binance" /\ binance_load_markets(result)
    \/ \E request \in WatchRequests : \E fail \in 0..2 :
          exchange_base.exchange = "BinanceUsdm" /\ usdm_watch_order_book(request, fail)
    \/ \E request \in WatchRequests : \E fail \in 0..2 :
          exchange_base.exchange = "Binance" /\ binance_watch_order_book(request, fail)

SpecWatch == InitWatch /\ [][NextWatch]_vars

\* Unifier::insert_market_symbol_id on the exchange's registry
insert_market_symbol_id(market, symbol_id) ==
    /\ exchange_base' = [exchange_base EXCEPT
            !.unifier = Unifier_insert_market_symbol_id(@, market, symbol_id)]
    /\ ret' = StreamCall("insert_market_symbol_id", <<market, symbol_id>>, Ok(Unit))
    /\ UNCHANGED <<market_order_books, feed, snapshot_thread, stream, clients>>

\* Unifier::reset on the exchange's registry
reset ==
    /\ exchange_base' = [exchange_base EXCEPT !.unifier = Unifier_reset(@)]
    /\ ret' = StreamCall("reset", "unifier", Ok(Unit))
    /\ UNCHANGED <<market_order_books, feed, snapshot_thread, stream, clients>>

\* the markets and the symbol ids of the answers
UnifiedMarkets == {Market_from(x).val : x \in {y \in Symbols : Market_from(y).ok}}
SymbolIds == {x.symbol.val : x \in {y \in Symbols : y.symbol.some /\ Market_from(y).ok}}

\* the registry by itself: registrations and resets in any order, and the
\* reload of the markets
\* the exchangeInfo answers of a reload: an error, or up to two symbols
ReloadResponses ==
    {Err([kind |-> "HttpError"]), Ok(<<>>)}
        \cup {Ok(<<x>>) : x \in Symbols}
        \cup {Ok(<<x, y>>) : x \in Symbols, y \in Symbols}

NextUnifier ==
    \/ \E m \in UnifiedMarkets, x \in SymbolIds : insert_market_symbol_id(m, x)
    \/ reset
    \/ \E result \in ReloadResponses : usdm_load_markets(result, "skip")

SpecUnifier == Init /\ [][NextUnifier]_vars

\* the three exchanges
Exchanges == {"BinanceUsdm", "Binance", "BinanceMargin"}

\* the answers of the spot and margin exchangeInfo: every symbol has its name
SpotResponses ==
    {result \in FetchMarketsResponses :
        result.ok => \A i \in 1..Len(result.val) : result.val[i].symbol.some}

\* the markets a caller asks watch_order_book for
Requests ==
    {<<>>} \cup {<<m>> : m \in UnifiedMarkets}
           \cup {<<m, k>> : m \in UnifiedMarkets, k \in UnifiedMarkets}

\* an exchange of one of the three kinds, just constructed
InitLoad ==
    /\ market_order_books = [m \in {} |-> OrderBookAggregator_new]
    /\ ret = Call("new", DefaultMarket, <<>>, Ok(Unit))
    /\ feed = 1
    /\ snapshot_thread = NoThread
    /\ NoStream
    /\ exchange_base \in {[unifier |-> Unifier_new, markets |-> <<>>, is_connected |-> FALSE,
                            exchange |-> e] : e \in Exchanges}
    /\ clients = <<>>

NextLoad ==
    \/ \E result \in FetchMarketsResponses : \E brackets \in {"skip", "ok", "fail"} :
          exchange_base.exchange = "BinanceUsdm" /\ usdm_load_markets(result, brackets)
    \/ \E result \in SpotResponses :
          exchange_base.exchange = "Binance" /\ binance_load_markets(result)
    \/ \E result \in SpotResponses : \E connected \in BOOLEAN :
          exchange_base.exchange = "BinanceMargin" /\ margin_load_markets(result, connected)
    \/ \E request \in Requests : \E r \in Consumers :
       \E sent \in {"ok", "no sender", "fail"} :
          exchange_base.exchange = "BinanceMargin" /\ margin_watch_order_book(request, r, sent)

SpecLoad == InitLoad /\ [][NextLoad]_vars

----------------------------------------------------------------------------
(* test_order_book_synchronizer: the main thread delivers TestDiffs diffs   *)
(* (3i, 3i + 2) with one bid and one ask of price i and quantity i, then    *)
(* calls get; a second thread delivers one snapshot at any point.  The      *)
(* snapshot's last_update_id is 5 in the test and any id of the diffs here. *)

\* for i in 0..10
TestDiffs == 10
\* Some(5), the last_update_id of the test's snapshot
TestSnapshotId == 5

TestDiff(i) ==
    OrderBookDiff_new(i * FeedSpan, i * FeedSpan + FeedSpan - 1,
                      <<[price |-> i, quantity |-> i]>>,
                      <<[price |-> i, quantity |-> i]>>)

TestBooks ==
    {OrderBook_new(<<[price |-> 1, quantity |-> 1]>>, <<[price |-> 2, quantity |-> 2]>>,
                   DefaultMarket, Some(id)) : id \in 0..(FeedSpan * TestDiffs - 1)}

InitTest ==
    /\ market_order_books = [m \in {DefaultMarket} |-> OrderBookAggregator_new]
    /\ ret = Call("new", DefaultMarket, <<>>, Ok(Unit))
    /\ feed = 0
    /\ snapshot_thread \in {[pc |-> "sleeping", order_book |-> ob] : ob \in TestBooks}
    /\ NoStream
    /\ NoExchange

\* the main thread's loop: append_and_get of diff i
test_append_and_get ==
    /\ feed < FeedSpan * TestDiffs
    /\ deliver(DefaultMarket, TestDiff(feed \div FeedSpan))

\* the second thread: let _ = sync.read().unwrap().snapshot(market, order_book)
test_snapshot ==
    LET r == Sync_snapshot(market_order_books, DefaultMarket, snapshot_thread.order_book)
    IN /\ snapshot_thread.pc = "sleeping"
       /\ ret.op # "get"
       /\ market_order_books' = r.books
       /\ ret' = Call("snapshot", DefaultMarket,
                       <<snapshot_thread.order_book.last_update_id>>, r.res)
       /\ snapshot_thread' = [snapshot_thread EXCEPT !.pc = "done"]
       /\ UNCHANGED <<feed, stream, exchange>>

\* the main thread after its loop: get(market).unwrap()
test_get ==
    /\ feed = FeedSpan * TestDiffs
    /\ ret.op # "get"
    /\ get(DefaultMarket)

NextTest ==
    \/ test_append_and_get
    \/ test_snapshot
    \/ test_get

SpecTest == InitTest /\ [][NextTest]_vars

----------------------------------------------------------------------------
(* What the claims speak of. *)

\* the levels a side holds, as (price, quantity) pairs
Levels(sm) == {sm.map[k] : k \in DOMAIN sm.map}

\* a set of levels after the instructions of a level list, first to last:
\* quantity 0 takes the price out, any other quantity puts it in
RECURSIVE Merged(_, _)
Merged(levels, units) ==
    IF units = <<>> THEN levels
    ELSE LET u == Head(units)
             others == {l \in levels : l[1] # u.price}
         IN Merged(IF u.quantity = 0 THEN others
                   ELSE others \cup {<<u.price, u.quantity>>},
                   Tail(units))

Aggregator(m) == market_order_books[m]

\* the last call was op on market m
Called(op, m) == ret.op = op /\ ret.market = m

----------------------------------------------------------------------------
(* Sequencing (Spec). *)

\* C1: a synchronized aggregator answers append_and_get of a diff whose
\* first_update_id is not last_update_id + 1 with an error and keeps its bids,
\* asks, last_update_id and is_synchronized, so get returns what it returned
\* before the call.
C1_GapRefused ==
    [][\A m \in DOMAIN market_order_books :
          ( /\ Aggregator(m).is_synchronized
            /\ ret'.op = "append_and_get" /\ ret'.market = m
            /\ ret'.ids[1] # Aggregator(m).last_update_id + 1 )
          => /\ ~ret'.res.ok
             /\ market_order_books'[m].bids = Aggregator(m).bids
             /\ market_order_books'[m].asks = Aggregator(m).asks
             /\ market_order_books'[m].last_update_id = Aggregator(m).last_update_id
             /\ market_order_books'[m].is_synchronized
             /\ Sync_get(market_order_books', m) = Sync_get(market_order_books, m)]_vars

\* a diff was refused on a synchronized market that has a book to return
C1_Witness ==
    \E m \in DOMAIN market_order_books :
        /\ Aggregator(m).is_synchronized
        /\ Called("append_and_get", m)
        /\ ~ret.res.ok
        /\ ret.res.err.msg = "invalid update id"
        /\ ret.ids[1] # Aggregator(m).last_update_id + 1
        /\ Sync_get(market_order_books, m).ok

----------------------------------------------------------------------------
(* The buffer and its drain (Spec, SpecBootstrap). *)

\* the bids, then the asks, of a list of diffs, in one list each
RECURSIVE AllBids(_)
AllBids(diffs) == IF diffs = <<>> THEN <<>> ELSE Head(diffs).bids \o AllBids(Tail(diffs))
RECURSIVE AllAsks(_)
AllAsks(diffs) == IF diffs = <<>> THEN <<>> ELSE Head(diffs).asks \o AllAsks(Tail(diffs))

\* the depth snapshots that carry a last_update_id
Anchors(books) == {ob \in books : ob.last_update_id.some}

\* the levels and last_update_id of agg equal the snapshot ob with the diffs
\* of the list applied after it, and agg is synchronized
IsSnapshotThen(agg, ob, diffs) ==
    /\ agg.is_synchronized
    /\ Levels(agg.bids) = Merged(Merged({}, ob.bids), AllBids(diffs))
    /\ Levels(agg.asks) = Merged(Merged({}, ob.asks), AllAsks(diffs))
    /\ agg.last_update_id = IF diffs = <<>> THEN ob.last_update_id.val
                            ELSE diffs[Len(diffs)].final_update_id

\* C4: buffered diffs that end after the snapshot's last_update_id are kept:
\* the snapshot returns Ok, the aggregator is synchronized and holds the
\* snapshot's levels with the buffered diffs' levels applied after them, and get
\* returns levels of that merged book.
C4_BufferedDiffKept ==
    \A m \in DOMAIN market_order_books :
        LET agg == Aggregator(m)
        IN ~agg.is_synchronized /\ agg.buffer.val # <<>> =>
             \A ob \in Anchors(LightBooks) :
                (\A i \in 1..Len(agg.buffer.val) :
                    agg.buffer.val[i].final_update_id > ob.last_update_id.val)
                => LET r == Sync_snapshot(market_order_books, m, ob)
                       g == Sync_get(r.books, m)
                   IN /\ r.res = Ok(Unit)
                      /\ IsSnapshotThen(r.books[m], ob, agg.buffer.val)
                      /\ Levels(r.books[m].bids) # {} /\ Levels(r.books[m].asks) # {}
                           => /\ g.ok
                              /\ <<g.val.bids[1].price, g.val.bids[1].quantity>>
                                    \in Merged(Merged({}, ob.bids), AllBids(agg.buffer.val))
                              /\ <<g.val.asks[1].price, g.val.asks[1].quantity>>
                                    \in Merged(Merged({}, ob.asks), AllAsks(agg.buffer.val))

\* a snapshot succeeded, a buffered diff that ends after it moved last_update_id
\* past the snapshot's, and the book has a bid and an ask
C4_Witness ==
    \E m \in DOMAIN market_order_books :
        /\ Aggregator(m).is_synchronized
        /\ Called("snapshot", m)
        /\ ret.res.ok
        /\ Aggregator(m).last_update_id > ret.ids[1].val
        /\ Sync_get(market_order_books, m).ok

\* C5: an unsynchronized aggregator holds no level, and append_and_get on it
\* returns Ok(None), appends the diff at the tail of the buffer and changes
\* neither bids, asks, last_update_id nor is_synchronized.
C5_BufferingFrame ==
    \A m \in DOMAIN market_order_books :
        LET agg == Aggregator(m)
        IN ~agg.is_synchronized =>
             /\ Levels(agg.bids) = {} /\ Levels(agg.asks) = {}
             /\ \A d \in FeedDiffs(feed) \cup LightDiffs :
                  LET r == Sync_append_and_get(market_order_books, m, d)
                  IN /\ r.res = Ok(None)
                     /\ r.books[m].buffer = Some(Append(agg.buffer.val, d))
                     /\ r.books[m].bids = agg.bids
                     /\ r.books[m].asks = agg.asks
                     /\ r.books[m].last_update_id = agg.last_update_id
                     /\ ~r.books[m].is_synchronized

\* three diffs are buffered in the order they arrived, the last call returned
\* Ok(None)
C5_Witness ==
    \E m \in DOMAIN market_order_books :
        LET agg == Aggregator(m)
        IN /\ ~agg.is_synchronized
           /\ Called("append_and_get", m)
           /\ ret.res = Ok(None)
           /\ Len(agg.buffer.val) = 3
           /\ agg.buffer.val[1].first_update_id < agg.buffer.val[2].first_update_id
           /\ agg.buffer.val[2].first_update_id < agg.buffer.val[3].first_update_id
           /\ agg.buffer.val[3].first_update_id = ret.ids[1]

\* the buffered diffs that end after the snapshot's last_update_id
NotStale(diffs, snapshot_id) ==
    SelectSeq(diffs, LAMBDA d : d.final_update_id > snapshot_id)

\* the buffered diffs a drain would merge if it merged a diff that is not stale
\* only when the diff starts at last_update_id + 1
RECURSIVE SuccessorsOnly(_, _, _)
SuccessorsOnly(diffs, last, snapshot_id) ==
    IF diffs = <<>> THEN <<>>
    ELSE LET d == Head(diffs)
         IN IF d.final_update_id <= snapshot_id
            THEN SuccessorsOnly(Tail(diffs), last, snapshot_id)
            ELSE IF d.first_update_id = last + 1
            THEN <<d>> \o SuccessorsOnly(Tail(diffs), d.final_update_id, snapshot_id)
            ELSE SuccessorsOnly(Tail(diffs), last, snapshot_id)

\* C2 as stated: the drain merges a buffered diff that is not stale only if the
\* diff's first_update_id is last_update_id + 1 when it is consumed.
C2_DrainChecksSuccessor ==
    \A m \in DOMAIN market_order_books :
        LET agg == Aggregator(m)
        IN ~agg.is_synchronized =>
             \A ob \in Anchors(BootstrapBooks) :
                LET id == ob.last_update_id.val
                    r == Sync_snapshot(market_order_books, m, ob)
                IN IsSnapshotThen(r.books[m], ob, SuccessorsOnly(agg.buffer.val, id, id))

\* C2: the drain merges every buffered diff that ends after the snapshot's
\* last_update_id, in arrival order and whatever its first_update_id, by the
\* level rule (quantity 0 removes, another quantity inserts or overwrites), and
\* last_update_id ends at the final_update_id of the last diff merged; the
\* buffer is gone and the snapshot returns Ok.
C2_DrainMergesNotStale ==
    \A m \in DOMAIN market_order_books :
        LET agg == Aggregator(m)
        IN ~agg.is_synchronized =>
             \A ob \in Anchors(BootstrapBooks) :
                LET id == ob.last_update_id.val
                    r == Sync_snapshot(market_order_books, m, ob)
                IN /\ r.res = Ok(Unit)
                   /\ r.books[m].buffer = None
                   /\ IsSnapshotThen(r.books[m], ob, NotStale(agg.buffer.val, id))

\* a snapshot whose last_update_id lies strictly inside a buffered diff's range
\* succeeded and last_update_id moved past it: the diff that starts before the
\* successor was merged
C2_Witness ==
    \E m \in DOMAIN market_order_books :
        /\ Aggregator(m).is_synchronized
        /\ Called("snapshot", m)
        /\ ret.res.ok
        /\ ret.ids[1].val % FeedSpan # 0
        /\ Aggregator(m).last_update_id > ret.ids[1].val
        /\ Levels(Aggregator(m).bids) # {}

\* D1..D5 are buffered with contiguous ranges and the snapshot's last_update_id
\* lies in D3's range
Bootstrap5(buf, id) ==
    /\ Len(buf) = 5
    /\ \A i \in 1..4 : buf[i + 1].first_update_id = buf[i].final_update_id + 1
    /\ buf[3].first_update_id <= id
    /\ id <= buf[3].final_update_id

\* C3 as stated: after the snapshot the book is the snapshot with D4 and D5
\* applied, last_update_id is D5's final_update_id and the aggregator is
\* synchronized.
C3_OnlyD4D5 ==
    \A m \in DOMAIN market_order_books :
        LET agg == Aggregator(m)
        IN ~agg.is_synchronized =>
             \A ob \in Anchors(BootstrapBooks) :
                LET buf == agg.buffer.val
                    r == Sync_snapshot(market_order_books, m, ob)
                IN Bootstrap5(buf, ob.last_update_id.val)
                   => IsSnapshotThen(r.books[m], ob, <<buf[4], buf[5]>>)

\* C3: after the snapshot the book is the snapshot with D4 and D5 applied when
\* the snapshot's last_update_id is D3's final_update_id, and with D3, D4 and D5
\* applied when it is smaller; last_update_id is D5's final_update_id and the
\* aggregator is synchronized.
C3_D3UnlessAtItsEnd ==
    \A m \in DOMAIN market_order_books :
        LET agg == Aggregator(m)
        IN ~agg.is_synchronized =>
             \A ob \in Anchors(BootstrapBooks) :
                LET buf == agg.buffer.val
                    id == ob.last_update_id.val
                    r == Sync_snapshot(market_order_books, m, ob)
                IN Bootstrap5(buf, id)
                   => /\ r.res = Ok(Unit)
                      /\ IsSnapshotThen(r.books[m], ob,
                            IF id < buf[3].final_update_id
                            THEN <<buf[3], buf[4], buf[5]>>
                            ELSE <<buf[4], buf[5]>>)

\* five diffs were delivered, then a snapshot whose last_update_id lies inside
\* the third one's range before its end succeeded
C3_Witness ==
    \E m \in DOMAIN market_order_books :
        /\ Aggregator(m).is_synchronized
        /\ Called("snapshot", m)
        /\ ret.res.ok
        /\ feed = 5 * FeedSpan + 1
        /\ ret.ids[1].val > 2 * FeedSpan
        /\ ret.ids[1].val < 3 * FeedSpan
        /\ Aggregator(m).last_update_id = 5 * FeedSpan

----------------------------------------------------------------------------
(* Price levels and the best bid and ask (SpecLevels). *)

PricesOf(levels) == {l[1] : l \in levels}

\* the level of the highest, and of the lowest, price of a set of levels
HighestLevel(levels) == CHOOSE l \in levels : \A k \in levels : k[1] <= l[1]
LowestLevel(levels) == CHOOSE l \in levels : \A k \in levels : l[1] <= k[1]

AsUnit(level) == [price |-> level[1], quantity |-> level[2]]

\* the quantity of the last level of the list at this price, -1 if there is none
RECURSIVE LastQuantity(_, _)
LastQuantity(units, price) ==
    IF units = <<>> THEN -1
    ELSE IF units[Len(units)].price = price THEN units[Len(units)].quantity
    ELSE LastQuantity(SubSeq(units, 1, Len(units) - 1), price)

\* every level of the list has quantity 0 and a price the levels do not hold
OnlyAbsentRemovals(units, levels) ==
    \A i \in 1..Len(units) :
        units[i].quantity = 0 /\ units[i].price \notin PricesOf(levels)

\* the diffs a synchronized aggregator accepts
Successors(agg) ==
    {d \in OrderBookDiffs : d.first_update_id = agg.last_update_id + 1}

\* C6 as stated: append_and_get of the successor diff on a synchronized
\* aggregator applies the diff's bid and ask levels in order, sets last_update_id
\* to the diff's final_update_id and, when the resulting book has a bid and an
\* ask, returns Ok(Some(book)) with the bid of the highest price and the ask of
\* the lowest price.
C6_AcceptedDiff ==
    \A m \in DOMAIN market_order_books :
        LET agg == Aggregator(m)
        IN agg.is_synchronized =>
             \A d \in Successors(agg) :
                LET r == Sync_append_and_get(market_order_books, m, d)
                    bids == Merged(Levels(agg.bids), d.bids)
                    asks == Merged(Levels(agg.asks), d.asks)
                IN /\ Levels(r.books[m].bids) = bids
                   /\ Levels(r.books[m].asks) = asks
                   /\ r.books[m].last_update_id = d.final_update_id
                   /\ bids # {} /\ asks # {}
                        => /\ r.res.ok
                           /\ r.res.val.some
                           /\ r.res.val.val.bids = <<AsUnit(HighestLevel(bids))>>
                           /\ r.res.val.val.asks = <<AsUnit(LowestLevel(asks))>>

\* C7: a level of quantity 0 takes its price out of its side, in a snapshot, in
\* a drained diff and in an accepted diff: a price whose last level in the list
\* has quantity 0 is not on the side afterwards, and a list of quantity-0 levels
\* at prices the side does not hold leaves the side as it was and raises no error.
C7_ZeroRemoves ==
    \A m \in DOMAIN market_order_books :
        LET agg == Aggregator(m)
        IN /\ agg.is_synchronized =>
                \A d \in Successors(agg) :
                   LET r == Sync_append_and_get(market_order_books, m, d)
                   IN /\ \A p \in Prices :
                           /\ LastQuantity(d.bids, p) = 0
                                => p \notin PricesOf(Levels(r.books[m].bids))
                           /\ LastQuantity(d.asks, p) = 0
                                => p \notin PricesOf(Levels(r.books[m].asks))
                      /\ OnlyAbsentRemovals(d.bids, Levels(agg.bids))
                           => r.books[m].bids = agg.bids
                      /\ OnlyAbsentRemovals(d.asks, Levels(agg.asks))
                           => r.books[m].asks = agg.asks
                      /\ ( /\ OnlyAbsentRemovals(d.bids, Levels(agg.bids))
                           /\ OnlyAbsentRemovals(d.asks, Levels(agg.asks))
                           /\ Sync_get(market_order_books, m).ok )
                           => r.res.ok
           /\ ~agg.is_synchronized =>
                \A p \in LevelPairs, q \in LevelPairs :
                   LET ob == OrderBook_new(p[1], p[2], DefaultMarket, Some(0))
                       d == OrderBookDiff_new(1, 1, q[1], q[2])
                       buffered == Sync_append_and_get(market_order_books, m, d).books
                       s1 == Sync_snapshot(market_order_books, m, ob)
                       s2 == Sync_snapshot(buffered, m, ob)
                   IN /\ s1.res.ok /\ s2.res.ok
                      /\ \A price \in Prices :
                           /\ LastQuantity(ob.bids, price) = 0
                                => price \notin PricesOf(Levels(s1.books[m].bids))
                           /\ LastQuantity(ob.asks, price) = 0
                                => price \notin PricesOf(Levels(s1.books[m].asks))
                           /\ LastQuantity(ob.bids \o d.bids, price) = 0
                                => price \notin PricesOf(Levels(s2.books[m].bids))
                           /\ LastQuantity(ob.asks \o d.asks, price) = 0
                                => price \notin PricesOf(Levels(s2.books[m].asks))
                      /\ OnlyAbsentRemovals(ob.bids, Levels(agg.bids))
                           => s1.books[m].bids = agg.bids
                      /\ OnlyAbsentRemovals(ob.asks \o d.asks, Levels(agg.asks))
                           => s2.books[m].asks = agg.asks

\* the snapshot at update id 0 left a bid, the diff of id 1 was accepted next and
\* no bid is left: a quantity-0 level took out a price that was present
C7_Witness ==
    \E m \in DOMAIN market_order_books :
        /\ Aggregator(m).is_synchronized
        /\ Called("append_and_get", m)
        /\ ret.ids = <<1, 1>>
        /\ Aggregator(m).last_update_id = 1
        /\ ~ret.res.ok
        /\ ret.res.err.msg = "no bid"
        /\ Levels(Aggregator(m).bids) = {}

\* C10 as stated: no side holds two levels of one price, and a book returned by
\* get or append_and_get has the bid of the highest price among the bids and
\* the ask of the lowest price among the asks.
C10_BestOfBook ==
    \A m \in DOMAIN market_order_books :
        LET agg == Aggregator(m)
            g == Sync_get(market_order_books, m)
        IN /\ \A k \in Levels(agg.bids), l \in Levels(agg.bids) : k[1] = l[1] => k = l
           /\ \A k \in Levels(agg.asks), l \in Levels(agg.asks) : k[1] = l[1] => k = l
           /\ g.ok => /\ g.val.bids = <<AsUnit(HighestLevel(Levels(agg.bids)))>>
                      /\ g.val.asks = <<AsUnit(LowestLevel(Levels(agg.asks)))>>
           /\ (Called("append_and_get", m) /\ ret.res.ok /\ ret.res.val.some)
                => /\ ret.res.val.val.bids = <<AsUnit(HighestLevel(Levels(agg.bids)))>>
                   /\ ret.res.val.val.asks = <<AsUnit(LowestLevel(Levels(agg.asks)))>>

----------------------------------------------------------------------------
(* Registration (Spec). *)

\* C11 as stated: init with a market that is registered and synchronized leaves
\* that market's levels, last_update_id and is_synchronized as they were.
C11_InitKeepsSynchronized ==
    [][ret'.op = "init" =>
         \A m \in DOMAIN market_order_books :
            Aggregator(m).is_synchronized
            => /\ market_order_books'[m].is_synchronized
               /\ market_order_books'[m].bids = Aggregator(m).bids
               /\ market_order_books'[m].asks = Aggregator(m).asks
               /\ market_order_books'[m].last_update_id = Aggregator(m).last_update_id]_vars

----------------------------------------------------------------------------
(* The snapshot and the diffs of the stream race (SpecTest). *)

\* both threads are through: every diff and the snapshot have been delivered
TestDelivered == feed = FeedSpan * TestDiffs /\ snapshot_thread.pc = "done"

\* the aggregator that buffered diffs 0..n-1
RECURSIVE BufferedTest(_)
BufferedTest(n) ==
    IF n = 0 THEN OrderBookAggregator_new
    ELSE Agg_append_and_get(BufferedTest(n - 1), TestDiff(n - 1)).agg

\* C12 as stated: when all the diffs and the snapshot have been delivered, the
\* levels and last_update_id are those the snapshot gives when it comes after
\* the last diff, at whatever position it came.
C12_PositionIndependent ==
    TestDelivered =>
        LET agg == Aggregator(DefaultMarket)
            last == Agg_snapshot(BufferedTest(TestDiffs), snapshot_thread.order_book).agg
        IN /\ Levels(agg.bids) = Levels(last.bids)
           /\ Levels(agg.asks) = Levels(last.asks)
           /\ agg.last_update_id = last.last_update_id

\* C13 as stated: with the snapshot of last_update_id 5 delivered by the second
\* thread, the get that follows the last diff returns Ok with bids[0].price and
\* asks[0].price both 9, the price of the last diff.
C13_TestAsserts ==
    ( /\ TestDelivered
      /\ snapshot_thread.order_book.last_update_id = Some(TestSnapshotId)
      /\ Called("get", DefaultMarket) )
    => /\ ret.res.ok
       /\ ret.res.val.bids[1].price = TestDiffs - 1
       /\ ret.res.val.asks[1].price = TestDiffs - 1

----------------------------------------------------------------------------
(* Errors of the synchronizer. *)

\* C14 as stated: a synchronized aggregator's refusal of a diff whose
\* first_update_id is not last_update_id + 1 is the error SynchronizationError
\* of the market, and converted to the stream's error type it is
\* OrderBookError::SynchronizationError(market).
C14_SynchronizationError ==
    [][\A m \in DOMAIN market_order_books :
          ( /\ Aggregator(m).is_synchronized
            /\ ret'.op = "append_and_get" /\ ret'.market = m
            /\ ret'.ids[1] # Aggregator(m).last_update_id + 1 )
          => /\ ~ret'.res.ok
             /\ ret'.res.err.kind = "SynchronizationError"
             /\ OrderBookError_from(ret'.res.err) = OrderBookError_SynchronizationError(m)]_vars

\* C15: snapshot, append_and_get and get of a market that is not registered
\* return Err(InvalidMarket) and leave the registry, its markets and every
\* aggregator as they were.
C15_UnknownMarket ==
    [][( /\ ret'.op \in {"snapshot", "append_and_get", "get"}
         /\ ret'.market \notin DOMAIN market_order_books )
       => /\ ret'.res = Err(InvalidMarket)
          /\ market_order_books' = market_order_books]_vars

\* snapshot of an unregistered market was refused while the other market is
\* registered, synchronized and holds levels
C15_Witness ==
    /\ Called("snapshot", "ETH/USDT")
    /\ ret.res = Err(InvalidMarket)
    /\ DOMAIN market_order_books = {"BTC/USDT"}
    /\ Aggregator("BTC/USDT").is_synchronized
    /\ Levels(Aggregator("BTC/USDT").bids) # {}

\* C16 as stated: get changes no aggregator; on an unsynchronized aggregator it
\* fails; on a synchronized aggregator with bids and asks it returns the bid of
\* the highest price and the ask of the lowest price.
C16_GetReadOnly ==
    [][\A m \in DOMAIN market_order_books :
          (ret'.op = "get" /\ ret'.market = m)
          => LET agg == Aggregator(m)
             IN /\ market_order_books' = market_order_books
                /\ ~agg.is_synchronized => ~ret'.res.ok
                /\ ( /\ agg.is_synchronized
                     /\ Levels(agg.bids) # {}
                     /\ Levels(agg.asks) # {} )
                   => /\ ret'.res.ok
                      /\ ret'.res.val.bids = <<AsUnit(HighestLevel(Levels(agg.bids)))>>
                      /\ ret'.res.val.asks = <<AsUnit(LowestLevel(Levels(agg.asks)))>>]_vars

----------------------------------------------------------------------------
(* The broadcast channel and its consumers (SpecStream). *)

\* the send of the ingest step put an item on the channel
Sent == ret'.op = "ingest" /\ ingest'.sent = ingest.sent + 1

\* the step is receive of consumer r, which had missed n > 0 dropped items
Overtaken(r, n) ==
    /\ ret'.op = "receive" /\ ret'.who = r
    /\ n = channel.head_pos - receivers[r].pos
    /\ n > 0

\* the producer is never held in a send, and a send on a full channel drops the
\* oldest item and keeps the others
NeverBlocks ==
    /\ ret'.op = "ingest" => ingest'.pc # "sending"
    /\ (Sent /\ Len(channel.queue) = channel.capacity)
       => /\ ret'.res = Ok(Some(Unit))
          /\ channel'.head_pos = channel.head_pos + 1
          /\ Len(channel'.queue) = channel.capacity
          /\ \A i \in 1..(channel.capacity - 1) :
                channel'.queue[i].msg = channel.queue[i + 1].msg

KeptUp(r) ==
    /\ receivers[r].pos >= channel.head_pos
    /\ \A i \in 1..Len(receivers[r].log) : receivers[r].log[i] > 0

\* the events first + 1 .. last in publication order
RECURSIVE Events(_, _)
Events(first, last) ==
    IF last <= first THEN <<>> ELSE Append(Events(first, last - 1), last)

\* C18 as stated: a consumer that has kept up has received every event sent so
\* far up to its read position, in the order of sending.
C18_EveryEvent ==
    \A r \in (DOMAIN receivers) \cap Consumers :
        KeptUp(r) => receivers[r].log = Events(0, receivers[r].pos)

\* C18, amended: a consumer that has kept up has received, in the order of
\* sending, every event sent after its receiver was created (by watch_order_book
\* or by clone) up to its read position; it gets none of the events sent before.
C18_EveryEventSinceClone ==
    \A r \in (DOMAIN receivers) \cap Consumers :
        KeptUp(r) => receivers[r].log = Events(receivers[r].start, receivers[r].pos)

\* two consumers created at different times have each received two events
C18_Witness ==
    /\ DOMAIN receivers = {"base", "c1", "c2"}
    /\ KeptUp("c1") /\ KeptUp("c2")
    /\ receivers["c1"].start = 0
    /\ receivers["c2"].start = 1
    /\ receivers["c1"].log = <<1, 2, 3>>
    /\ receivers["c2"].log = <<2, 3>>

\* C19: a clone, receive or drop of one consumer changes nothing of any other
\* consumer nor what its next receive returns; a consumer that is not behind the
\* oldest retained item receives the event that follows the one it received
\* last; and no send of the producer fails or waits.
C19_Isolation ==
    [][/\ ret'.op = "ingest" => ingest'.pc # "sending"
       /\ Sent => ret'.res.ok
       /\ \A q \in Consumers, r \in Consumers :
             ( /\ q # r /\ r \in DOMAIN receivers
               /\ ret'.op \in {"clone", "receive", "drop"} /\ ret'.who = q )
             => LET before == Receiver_receive(channel, receivers[r].pos)
                    after == Receiver_receive(channel', receivers[r].pos)
                IN /\ receivers'[r] = receivers[r]
                   /\ after.res = before.res
                   /\ after.pending = before.pending
                   /\ after.pos = before.pos
       /\ \A r \in Consumers :
             ( /\ ret'.op = "receive" /\ ret'.who = r
               /\ receivers[r].pos >= channel.head_pos )
             => /\ ret'.res.ok
                /\ ret'.res.val.seq = receivers[r].pos + 1]_vars

\* one consumer was overtaken and then dropped its receiver while the other,
\* which has kept up and received three events, still has one to read
C19_Witness ==
    /\ ret.op = "drop" /\ ret.who = "c1"
    /\ DOMAIN receivers = {"base", "c2"}
    /\ channel.head_pos > 0
    /\ KeptUp("c2")
    /\ Len(receivers["c2"].log) = 3
    /\ receivers["c2"].pos < ingest.sent

----------------------------------------------------------------------------
(* Malformed messages (SpecStream). *)

\* a body that is no JSON, a book ticker of an unknown symbol, or a book ticker
\* with a price or quantity that is no number
Malformed(message) ==
    \/ ~message.decodable
    \/ /\ message.event_type = Some("bookTicker")
       /\ \/ ~Unifier_get_market(StreamUnifier, message.symbol.val).some
          \/ ~parse_f64(message.bid_price.val).ok
          \/ ~parse_f64(message.bid_quantity.val).ok
          \/ ~parse_f64(message.ask_price.val).ok
          \/ ~parse_f64(message.ask_quantity.val).ok

\* C20 as stated: the ingest step of a malformed message sends an error item,
\* which is then the newest item of the channel, and leaves the ingest task
\* running.
C20_MalformedMessage ==
    [][(ret'.op = "ingest" /\ ret'.who \in Messages /\ Malformed(ret'.who))
       => /\ ingest'.pc = "running"
          /\ ingest'.sent = ingest.sent + 1
          /\ Len(channel'.queue) > 0
          /\ channel'.queue[Len(channel'.queue)].msg.seq = ingest'.sent
          /\ ~channel'.queue[Len(channel'.queue)].msg.item.ok]_vars

----------------------------------------------------------------------------
(* Isolation of the markets (SpecMarkets). *)

\* the calls of the claim on one market: what they leave and what they return
MarketOps ==
    {[op |-> "get"]} \cup {[op |-> "snapshot", order_book |-> ob] : ob \in MarketBooks}
                     \cup {[op |-> "append_and_get", diff |-> d] : d \in MarketDiffs}
Sync_call(books, market, c) ==
    IF c.op = "snapshot" THEN Sync_snapshot(books, market, c.order_book)
    ELSE IF c.op = "append_and_get" THEN Sync_append_and_get(books, market, c.diff)
    ELSE [books |-> books, res |-> Sync_get(books, market)]

\* C24: snapshot, append_and_get and get of a market leave the aggregator of
\* every other registered market as it was, whatever they return; and two calls
\* on two different markets give the same results and the same aggregators in
\* either order.
C24_MarketsIsolated ==
    /\ \A a \in MarketPairs : \A c \in MarketOps :
          \A b \in (DOMAIN market_order_books) \ {a} :
             Sync_call(market_order_books, a, c).books[b] = market_order_books[b]
    /\ \A a \in MarketPairs, b \in MarketPairs : \A c \in MarketOps, d \in MarketOps :
          a # b =>
             LET ca == Sync_call(market_order_books, a, c)
                 cadb == Sync_call(ca.books, b, d)
                 db == Sync_call(market_order_books, b, d)
                 dbca == Sync_call(db.books, a, c)
             IN /\ cadb.books = dbca.books
                /\ ca.res = dbca.res
                /\ db.res = cadb.res

\* a diff was refused on one synchronized market while the other market is
\* synchronized and holds levels
C24_Witness ==
    /\ DOMAIN market_order_books = MarketPairs
    /\ Called("append_and_get", "BTC/USDT")
    /\ ~ret.res.ok
    /\ Aggregator("BTC/USDT").is_synchronized
    /\ Aggregator("ETH/USDT").is_synchronized
    /\ Levels(Aggregator("ETH/USDT").bids) # {}

----------------------------------------------------------------------------
(* Refused and failed diffs (SpecLevels, SpecMarkets). *)

\* C26 as stated: when append_and_get on a synchronized aggregator returns Err,
\* the aggregator's bids, asks and last_update_id are what they were before the
\* call.
C26_ErrChangesNothing ==
    [][\A m \in DOMAIN market_order_books :
          ( /\ Aggregator(m).is_synchronized
            /\ ret'.op = "append_and_get" /\ ret'.market = m
            /\ ~ret'.res.ok )
          => /\ market_order_books'[m].bids = Aggregator(m).bids
             /\ market_order_books'[m].asks = Aggregator(m).asks
             /\ market_order_books'[m].last_update_id = Aggregator(m).last_update_id]_vars

\* the result of a diff refused for its first_update_id
Refused(res) == ~res.ok /\ res.err.msg = "invalid update id"

\* C27: a refused diff leaves the aggregator synchronized with its
\* last_update_id; on a synchronized aggregator (so also after a refusal) a diff
\* is accepted exactly when its first_update_id is last_update_id + 1, every
\* snapshot fails and changes nothing, and no call but init ends the
\* synchronized state; after init of the market a snapshot succeeds.
C27_NoSelfHeal ==
    [][\A m \in DOMAIN market_order_books :
          Aggregator(m).is_synchronized
          => /\ ret'.op # "init" => market_order_books'[m].is_synchronized
             /\ (ret'.op = "append_and_get" /\ ret'.market = m)
                => /\ Refused(ret'.res) <=> ret'.ids[1] # Aggregator(m).last_update_id + 1
                   /\ Refused(ret'.res) => market_order_books'[m] = Aggregator(m)
             /\ (ret'.op = "snapshot" /\ ret'.market = m)
                => /\ ~ret'.res.ok
                   /\ market_order_books'[m] = Aggregator(m)
             /\ (ret'.op = "append_and_get" /\ ret'.market = m /\ Refused(ret'.res))
                => LET books == market_order_books'
                   IN /\ \A d \in MarketDiffs :
                            Refused(Sync_append_and_get(books, m, d).res)
                            <=> d.first_update_id # Aggregator(m).last_update_id + 1
                      /\ \A ob \in MarketBooks :
                            LET r == Sync_snapshot(books, m, ob)
                            IN ~r.res.ok /\ r.books = books
                      /\ \A ob \in Anchors(MarketBooks) :
                            Sync_snapshot(Sync_init(books, <<m>>), m, ob).res.ok]_vars

\* a diff was accepted after the snapshot, then a diff was refused, and in that
\* state a successor diff is accepted and a snapshot fails
C27_Witness ==
    \E m \in DOMAIN market_order_books :
        /\ Aggregator(m).is_synchronized
        /\ Called("append_and_get", m)
        /\ Refused(ret.res)
        /\ Aggregator(m).last_update_id = 1
        /\ \E d \in MarketDiffs : Sync_append_and_get(market_order_books, m, d).res.ok
        /\ \E ob \in Anchors(MarketBooks) : ~Sync_snapshot(market_order_books, m, ob).res.ok

----------------------------------------------------------------------------
(* The symbol registry (SpecUnifier). *)

\* the step registers symbol id x for market m: a registration, or a
\* load_markets whose answer lists x with the assets of m
Registers(m, x) ==
    \/ ret'.op = "insert_market_symbol_id" /\ ret'.who = <<m, x>>
    \/ /\ ret'.op = "load_markets" /\ ret'.who.ok
       /\ \E i \in 1..Len(ret'.who.val) :
             /\ ret'.who.val[i].symbol = Some(x)
             /\ Market_from(ret'.who.val[i]) = Ok(m)

\* nothing resolves after the step that did not resolve before it and was not
\* registered by it
OnlyRegistered ==
    /\ \A m \in UnifiedMarkets : \A x \in SymbolIds :
          Unifier_get_symbol_id(exchange_base'.unifier, m) = Some(x)
          => \/ Unifier_get_symbol_id(exchange_base.unifier, m) = Some(x)
             \/ Registers(m, x)
    /\ \A m \in UnifiedMarkets : \A x \in SymbolIds :
          Unifier_get_market(exchange_base'.unifier, x) = Some(m)
          => \/ Unifier_get_market(exchange_base.unifier, x) = Some(m)
             \/ Registers(m, x)

\* C22: right after insert_market_symbol_id(m, x), get_symbol_id(m) is Some(x)
\* and get_market(x) is Some(m); a market or a symbol id resolves only if it
\* has been registered.
C22_BothDirections ==
    [][/\ ret'.op = "insert_market_symbol_id"
          => /\ Unifier_get_symbol_id(exchange_base'.unifier, ret'.who[1]) = Some(ret'.who[2])
             /\ Unifier_get_market(exchange_base'.unifier, ret'.who[2]) = Some(ret'.who[1])
       /\ OnlyRegistered]_vars

\* a second pair was registered and the third market does not resolve
C22_Witness ==
    /\ ret.op = "insert_market_symbol_id"
    /\ ret.who = <<<<"ETH", "USDT">>, "ETHUSDT">>
    /\ Unifier_get_symbol_id(exchange_base.unifier, <<"BTC", "USDT">>) = Some("BTCUSDT")
    /\ Unifier_get_market(exchange_base.unifier, "ETHUSDT") = Some(<<"ETH", "USDT">>)
    /\ Unifier_get_market(exchange_base.unifier, "XBTUSDT") = None

\* C23: right after reset no market and no symbol id resolves, and nothing
\* resolves later that was not registered since; after a load_markets that
\* fetched the markets anew, a symbol id resolves only if the answer lists it.
C23_ResetClears ==
    [][/\ ret'.op = "reset"
          => /\ \A m \in UnifiedMarkets :
                   Unifier_get_symbol_id(exchange_base'.unifier, m) = None
             /\ \A x \in SymbolIds :
                   Unifier_get_market(exchange_base'.unifier, x) = None
       /\ OnlyRegistered
       /\ (ret'.op = "load_markets" /\ exchange_base.markets = <<>> /\ ret'.res.ok)
          => \A x \in SymbolIds :
                Unifier_get_market(exchange_base'.unifier, x).some
                => \E m \in UnifiedMarkets : Registers(m, x)]_vars

\* the markets were fetched anew: the answer lists ETHUSDT only, and BTCUSDT
\* does not resolve
C23_Witness ==
    /\ ret.op = "load_markets"
    /\ ret.res.ok
    /\ exchange_base.markets = <<<<"ETH", "USDT">>>>
    /\ Unifier_get_market(exchange_base.unifier, "ETHUSDT") = Some(<<"ETH", "USDT">>)
    /\ Unifier_get_market(exchange_base.unifier, "BTCUSDT") = None
    /\ Unifier_get_symbol_id(exchange_base.unifier, <<"BTC", "USDT">>) = None

\* C28 as stated: get_symbol_id(m) is Some(x) exactly when get_market(x) is
\* Some(m), for every market m and symbol id x.
C28_MutualInverses ==
    \A m \in UnifiedMarkets : \A x \in SymbolIds :
        Unifier_get_symbol_id(exchange_base.unifier, m) = Some(x)
        <=> Unifier_get_market(exchange_base.unifier, x) = Some(m)

----------------------------------------------------------------------------
(* load_markets (SpecLoad). *)

\* every market of the cache resolves to a symbol id that resolves to it
CacheResolves(base) ==
    \A i \in 1..Len(base.markets) :
        LET x == Unifier_get_symbol_id(base.unifier, base.markets[i])
        IN x.some /\ Unifier_get_market(base.unifier, x.val) = Some(base.markets[i])

\* C29 as stated: a load_markets that returns Err leaves the market cache and
\* the symbol registry as they were; after one that returns Ok every market of
\* the cache resolves to a symbol id that resolves to it; with a cache that is
\* not empty the call changes neither.
C29_LoadMarketsAtomic ==
    [][ret'.op = "load_markets"
       => /\ ~ret'.res.ok
             => /\ exchange_base'.markets = exchange_base.markets
                /\ exchange_base'.unifier = exchange_base.unifier
          /\ ret'.res.ok => CacheResolves(exchange_base')
          /\ exchange_base.markets # <<>>
             => /\ exchange_base'.markets = exchange_base.markets
                /\ exchange_base'.unifier = exchange_base.unifier]_vars

\* C30 as stated: after a load_markets of the margin exchange that returned Ok
\* the exchange is connected, the synchronizer holds an aggregator for each
\* market of the cache and the ingest task runs; and no watch_order_book of an
\* exchange whose load_markets has returned Ok fails with NotConnected.
C30_LoadedIsConnected ==
    [][/\ ( /\ exchange_base.exchange = "BinanceMargin"
            /\ ret'.op = "load_markets" /\ ret'.res.ok )
          => /\ exchange_base'.is_connected
             /\ ingest'.pc = "running"
             /\ \A i \in 1..Len(exchange_base'.markets) :
                   exchange_base'.markets[i] \in DOMAIN market_order_books'
       /\ ( /\ ret.op = "load_markets" /\ ret.res.ok
            /\ ret'.op = "watch_order_book" )
          => ret'.res # Err(WatchError_NotConnected)]_vars

----------------------------------------------------------------------------
(* watch_order_book in chunks (SpecWatch). *)

\* the params of all connections, one after the other
RECURSIVE Subscribed(_)
Subscribed(cs) ==
    IF cs = <<>> THEN <<>> ELSE Head(cs).params \o Subscribed(Tail(cs))

\* the stream of a market: its symbol id in lower case
StreamOf(m) == to_lowercase(Unifier_get_symbol_id(exchange_base.unifier, m).val)

\* C21: after a watch_order_book of BinanceUsdm or Binance that returned Ok
\* there are ceil(n / 100) connections for its n markets, each with one
\* SUBSCRIBE of at most 100 streams; the streams of the connections, taken in
\* order, are the requested markets' symbol ids in request order and no stream
\* occurs twice, so every requested market is subscribed on exactly one
\* connection.
C21_ChunksOfHundred ==
    ( ret.op = "watch_order_book" /\ ret.res.ok )
    => LET request == ret.who
           n == Len(request)
           flat == Subscribed(clients)
       IN /\ Len(clients) = (n + 99) \div 100
          /\ \A j \in 1..Len(clients) :
                /\ clients[j].method = "SUBSCRIBE"
                /\ Len(clients[j].params) \in 1..100
                /\ \A p \in 1..Len(clients[j].params) :
                      clients[j].params[p][1] = StreamOf(request[(j - 1) * 100 + p])
          /\ Len(flat) = n
          /\ \A i \in 1..n : flat[i][1] = StreamOf(request[i])
          /\ Cardinality({flat[i][1] : i \in 1..n}) = n

\* a request of 201 markets was answered with three connections of 100, 100
\* and 1 streams
C21_Witness ==
    /\ ret.op = "watch_order_book" /\ ret.res.ok
    /\ Len(ret.who) = 201
    /\ Len(clients) = 3
    /\ Len(clients[1].params) = 100
    /\ Len(clients[2].params) = 100
    /\ Len(clients[3].params) = 1

----------------------------------------------------------------------------
(* The order of the stream (SpecStream). *)

\* the events a receiver got, without the counts of events it missed
RECURSIVE Received(_)
Received(log) ==
    IF log = <<>> THEN <<>>
    ELSE IF Head(log) > 0 THEN <<Head(log)>> \o Received(Tail(log))
    ELSE Received(Tail(log))

\* C25: the ingest loop numbers the items it publishes in the order in which
\* it takes the messages from the transport; the channel holds the items in
\* that order, the last one published at the tail, and every receiver gets the
\* items it receives in that order.
C25_OrderPreserved ==
    /\ \A i \in 1..Len(channel.queue) :
          /\ channel.queue[i].msg.seq = ingest.sent - Len(channel.queue) + i
          /\ channel.queue[i].msg.seq <= ingest.taken
    /\ \A r \in DOMAIN receivers :
          LET got == Received(receivers[r].log)
          IN \A i \in 1..Len(got) : \A j \in 1..Len(got) :
                i < j => got[i] < got[j]

\* a consumer has received the items of two messages, the earlier one first
C25_Witness ==
    \E r \in DOMAIN receivers :
        LET got == Received(receivers[r].log)
        IN /\ Len(got) >= 2
           /\ got[1] < got[2]
           /\ ingest.taken >= 2

====
